---- MODULE Spec2Model ----
(***************************************************************************)
(* Message-handling orchestration of the Gemini / MCP chat client.         *)
(*                                                                         *)
(* Application.handle_user_message (src/src/application.py) is modelled as *)
(* a sequential process whose steps are its awaits on the two transports:  *)
(* MCPClient (src/src/mcp_client.py) and GeminiClient                      *)
(* (src/src/gemini_client.py).  What the remote peers answer is the        *)
(* nondeterministic input of each step.                                    *)
(*                                                                         *)
(* Text is a finite sequence of tokens: "" is << >>, and concatenation,    *)
(* emptiness, strip() and containment are computed on the tokens.          *)
(* A Python value is a record [t, v]: t is its type tag, v its tokens.     *)
(*                                                                         *)
(* Spec is the application: start, the messages, shutdown.  ClientSpec is  *)
(* one MCPClient used by itself, ErrorSpec is ErrorHandler.handle_error    *)
(* applied to one error, RenderSpec is render_tool_result applied to one   *)
(* tool result.                                                            *)
(***************************************************************************)
EXTENDS Integers, Sequences, FiniteSets, TLC

\* How many user messages one run of the application handles.
MaxMessages == 2

\* How many operations are invoked on one MCPClient used by itself.
MaxClientCalls == 4

\* How many content blocks a rendered tool result has.
MaxBlocks == 2

\* How many operations are invoked on one GeminiClient used by itself.
MaxGeminiCalls == 3

\* How many lines input() returns to the chat loop of main().
MaxInputs == 2

----------------------------------------------------------------------------
(* Python values *)

PyNone == [t |-> "none", v |-> << >>]
Str(s) == [t |-> "str", v |-> s]
Num(s) == [t |-> "num", v |-> s]
List(s) == [t |-> "list", v |-> s]
\* A mapping; v is its serialised body, << >> for {}.
Dict(s) == [t |-> "dict", v |-> s]
Bytes(s) == [t |-> "bytes", v |-> s]
PyTrue == [t |-> "bool", v |-> <<"True">>]
PyFalse == [t |-> "bool", v |-> << >>]

IsStr(x) == x.t = "str"
IsDict(x) == x.t = "dict"
\* bool(x) for the values above: None and empty values are falsy.
Truthy(x) == x.t # "none" /\ x.v # << >>

Whitespace == {" ", "\n", "\t"}

RECURSIVE LStrip(_)
LStrip(s) == IF s # << >> /\ Head(s) \in Whitespace THEN LStrip(Tail(s)) ELSE s

RECURSIVE RStrip(_)
RStrip(s) ==
    IF s # << >> /\ s[Len(s)] \in Whitespace
    THEN RStrip(SubSeq(s, 1, Len(s) - 1))
    ELSE s

\* str.strip()
Strip(s) == RStrip(LStrip(s))

\* "sub in s" for token sequences
Contains(s, sub) ==
    \E i \in 0..(Len(s) - Len(sub)) : SubSeq(s, i + 1, i + Len(sub)) = sub

RECURSIVE Join(_, _)
\* sep.join(parts)
Join(sep, parts) ==
    IF parts = << >> THEN << >>
    ELSE IF Len(parts) = 1 THEN parts[1]
    ELSE parts[1] \o sep \o Join(sep, Tail(parts))

RECURSIVE SkipEmpty(_)
\* [p for p in parts if p]
SkipEmpty(parts) ==
    IF parts = << >> THEN << >>
    ELSE IF Head(parts) = << >> THEN SkipEmpty(Tail(parts))
    ELSE <<Head(parts)>> \o SkipEmpty(Tail(parts))

----------------------------------------------------------------------------
(* Exceptions and results of calls *)

\* An exception: its class, the marker substrings str(e) contains, and the
\* error_type field of GeminiError / MCPError ("" for other classes).
Exc(cls, markers, error_type) ==
    [cls |-> cls, markers |-> markers, error_type |-> error_type]

NoExc == Exc("", {}, "")

\* GeminiError and MCPError are dataclasses raised with keyword arguments only,
\* so their args are () and str(e) is "": no marker is contained in it.
GeminiError(error_type) == Exc("GeminiError", {}, error_type)
MCPError(error_type) == Exc("MCPError", {}, error_type)
RuntimeError == Exc("RuntimeError", {}, "")

Return(x) == [kind |-> "return", value |-> x, exc |-> NoExc]
Raise(e) == [kind |-> "raise", value |-> PyNone, exc |-> e]

----------------------------------------------------------------------------
(* ErrorHandler (src/src/error_handler.py) *)

MSG_NETWORK == <<"Network connection problem. Check your internet connection.">>
MSG_RATE_LIMIT == <<"API rate limit reached. Wait and retry.">>
MSG_AUTH == <<"API key authentication failed. Check the API key.">>
MSG_MCP == <<"Could not connect to the MCP server. Check that it is running.">>
MSG_UNKNOWN == <<"Unexpected error. Check the log.">>

IsNetworkClass(error) == error.cls \in {"ConnectionError", "TimeoutError"}
HasRateLimitText(error) == error.markers \cap {"429", "Too Many Requests"} # {}
HasAuthText(error) ==
    error.markers \cap {"401", "403", "Unauthorized", "Forbidden"} # {}

\* ErrorHandler.get_user_message
get_user_message(error) ==
    IF IsNetworkClass(error) THEN MSG_NETWORK
    ELSE IF HasRateLimitText(error) THEN MSG_RATE_LIMIT
    ELSE IF HasAuthText(error) THEN MSG_AUTH
    ELSE IF "MCP" \in error.markers THEN MSG_MCP
    ELSE MSG_UNKNOWN

\* ErrorCategory
NETWORK == "network"
RATE_LIMIT == "rate_limit"
AUTH == "auth"
MCP_CONNECTION == "mcp_connection"
UNKNOWN == "unknown"

\* ErrorHandler._classify_error
classify_error(error, error_source) ==
    IF error_source = Str(<<"mcp">>) \/ "MCP" \in error.markers
        THEN MCP_CONNECTION
    ELSE IF IsNetworkClass(error) THEN NETWORK
    ELSE IF HasRateLimitText(error) THEN RATE_LIMIT
    ELSE IF HasAuthText(error) THEN AUTH
    ELSE UNKNOWN

\* ErrorHandler.is_recoverable
is_recoverable(error) ==
    IF HasAuthText(error) THEN FALSE
    ELSE IF IsNetworkClass(error) THEN TRUE
    ELSE IF HasRateLimitText(error) THEN TRUE
    ELSE IF "MCP" \in error.markers THEN TRUE
    ELSE FALSE

ErrorContext(category, user_message, recoverable) ==
    [category |-> category, user_message |-> user_message,
     recoverable |-> recoverable]

NoErrorContext == ErrorContext("", << >>, FALSE)

\* ErrorHandler.handle_error: the category reads error_source, the user
\* message and the recoverable flag do not.
handle_error(error, error_source) ==
    ErrorContext(classify_error(error, error_source),
                 get_user_message(error), is_recoverable(error))

\* The marker substrings the handler looks for in str(error).
Markers ==
    {"429", "Too Many Requests", "401", "403", "Unauthorized", "Forbidden",
     "MCP"}

\* The errors given to the handler: exceptions of the network classes and of
\* other classes with any markers in their text, and the two dataclass
\* errors, whose text is empty.
Errors ==
    {Exc(cls, markers, "") :
        cls \in {"ConnectionError", "TimeoutError", "Exception"},
        markers \in SUBSET Markers}
    \cup {Exc("GeminiError", {}, error_type) :
             error_type \in {"network", "rate_limit", "auth", "unknown"}}
    \cup {Exc("MCPError", {}, error_type) :
             error_type \in {"connection", "protocol", "tool"}}

\* error_source: absent, or the name of the component the error came from.
ErrorSources == {PyNone, Str(<<"mcp">>), Str(<<"gemini">>)}

----------------------------------------------------------------------------
(* GeminiClient (src/src/gemini_client.py) *)

\* What the remote generate_content call does: it raises, or it answers with
\* a response whose .text is a string or None (a response without text parts).
ApiRaises(e) == Raise(e)
ApiResponse(text) == Return(text)

\* The request contents built by send_message: the context, when truthy, is
\* put in front of the message.
full_message(message, context) ==
    IF Truthy(context)
    THEN <<"[Context]\n">> \o context.v \o <<"\n\n[User Message]\n">> \o message
    ELSE message

\* Mutant of send_message: "Forbidden" counts as an authentication text, as
\* it does in the ErrorHandler.
send_message_ForbiddenIsAuth(api) ==
    IF api.kind = "raise" THEN
        IF api.exc.cls = "ConnectionError" THEN Raise(GeminiError("network"))
        ELSE IF api.exc.markers \cap {"429", "Too Many Requests"} # {}
            THEN Raise(GeminiError("rate_limit"))
        ELSE IF api.exc.markers \cap {"401", "403", "Unauthorized", "Forbidden"} # {}
            THEN Raise(GeminiError("auth"))
        ELSE Raise(GeminiError("unknown"))
    ELSE IF ~IsStr(api.value) THEN Raise(GeminiError("unknown"))
    ELSE Return(api.value)

\* GeminiClient.send_message: the value returned or the GeminiError raised.
\* A response whose text is None fails at the debug line that slices it
\* (TypeError), which the generic handler turns into kind "unknown".
send_message(api) ==
    IF api.kind = "raise" THEN
        IF api.exc.cls = "ConnectionError" THEN Raise(GeminiError("network"))
        ELSE IF api.exc.markers \cap {"429", "Too Many Requests"} # {}
            THEN Raise(GeminiError("rate_limit"))
        ELSE IF api.exc.markers \cap {"401", "403", "Unauthorized"} # {}
            THEN Raise(GeminiError("auth"))
        ELSE Raise(GeminiError("unknown"))
    ELSE IF ~IsStr(api.value) THEN Raise(GeminiError("unknown"))
    ELSE Return(api.value)

\* Mutant of request_contents: the earlier turns are sent along.
request_contents_WithHistory(history, message, context) ==
    <<ToString(history)>> \o full_message(message, context)

\* GeminiClient.send_message: the "contents" of the request.  It is the full
\* message alone; the conversation history the client keeps is not sent.
request_contents(history, message, context) == full_message(message, context)

\* GeminiClient.send_message: the conversation history after the call.  The
\* pair is appended as soon as the response arrived, before the debug line.
history_after(history, message, api, persist_history) ==
    IF api.kind = "return" /\ persist_history
    THEN history \o <<[role |-> "user", content |-> Str(message)],
                      [role |-> "model", content |-> api.value]>>
    ELSE history

\* GeminiClient.reset_conversation: the conversation history after the call.
reset_conversation(history) == << >>

\* A plan document: what json.loads returns for a reply in JSON mode.  A
\* mapping carries the four keys the orchestrator reads; dict.get gives None
\* for a key that is absent or null.
PlanDoc(action, message, tool, arguments) ==
    [t |-> "dict", v |-> << >>, action |-> action, message |-> message,
     tool |-> tool, arguments |-> arguments]
\* A JSON document that is not a mapping (an array, a number, null).
NonDictDoc(t) ==
    [t |-> t, v |-> << >>, action |-> PyNone, message |-> PyNone,
     tool |-> PyNone, arguments |-> PyNone]

\* The tool names that occur: two the server may offer, one it never offers.
EXECUTE_SQL == <<"execute_sql">>
LIST_TABLES == <<"list_tables">>
DROP_DATABASE == <<"drop_database">>

SQL_ARGUMENTS == Dict(<<"\"sql\": \"SELECT * FROM employees\"">>)

RespondDocs ==
    { PlanDoc(Str(<<"respond">>), m, PyNone, PyNone) :
        m \in {PyNone, Num(<<"5">>), Str(<< >>), Str(<<" ">>),
               Str(<<"There are 3 employees.">>)} }

CallToolDocs ==
    { PlanDoc(Str(<<"call_tool">>), PyNone, tl, PyNone) :
        tl \in {PyNone, Num(<<"5">>), Str(<< >>), Str(DROP_DATABASE)} }
    \cup
    { PlanDoc(Str(<<"call_tool">>), PyNone, Str(EXECUTE_SQL), a) :
        a \in {PyNone, SQL_ARGUMENTS, Dict(<< >>), List(<<"1">>)} }

OtherDocs ==
    { NonDictDoc("list"), NonDictDoc("none"),
      PlanDoc(PyNone, PyNone, PyNone, PyNone),
      PlanDoc(Str(<<"search">>), Str(<<"hello">>), Str(EXECUTE_SQL), PyNone) }

\* The JSON documents the model may reply with in JSON mode.
JsonDocs == RespondDocs \cup CallToolDocs \cup OtherDocs

\* json.dumps of a document of the model, as reply text.
JsonText(doc) == <<ToString(doc)>>

\* json.loads succeeds exactly on the texts that serialise a document.
IsJson(text) == \E doc \in JsonDocs : JsonText(doc) = text
json_loads(text) == CHOOSE doc \in JsonDocs : JsonText(doc) = text

\* Mutant of send_json: the JSONDecodeError is not converted.
send_json_RawDecodeError(api) ==
    LET r == send_message(api) IN
    IF r.kind = "raise" THEN r
    ELSE IF IsJson(r.value.v) THEN Return(json_loads(r.value.v))
    ELSE Raise(Exc("JSONDecodeError", {}, ""))

\* GeminiClient.send_json: send_message without history, then json.loads;
\* a JSONDecodeError becomes a GeminiError of kind "unknown".
send_json(api) ==
    LET r == send_message(api) IN
    IF r.kind = "raise" THEN r
    ELSE IF IsJson(r.value.v) THEN Return(json_loads(r.value.v))
    ELSE Raise(GeminiError("unknown"))

----------------------------------------------------------------------------
(* MCPClient (src/src/mcp_client.py) *)

\* What a call on the MCP session does: it raises, or it returns a value.
SessionRaises == Raise(Exc("Exception", {}, ""))
SessionReturns(x) == Return(x)

\* A resource of the server, as list_resources reports it.
Resource(name, uri) == [name |-> name, uri |-> uri]

RECURSIVE ResourceLines(_)
ResourceLines(resources) ==
    IF resources = << >> THEN << >>
    ELSE <<(<<"Resource: ">> \o Head(resources).name \o <<" (">>
            \o Head(resources).uri \o <<")">>)>>
         \o ResourceLines(Tail(resources))

\* Mutant of get_context: the session's exception is not converted.
get_context_Unwrapped(conn, session) ==
    IF ~conn THEN Return(PyNone)
    ELSE IF session.kind = "raise" THEN session
    ELSE IF session.value.v = << >> THEN Return(Str(<<"No resources available">>))
    ELSE Return(Str(Join(<<"\n">>, ResourceLines(session.value.v))))

\* MCPClient.get_context on a client whose _connected flag is `conn`.
get_context(conn, session) ==
    IF ~conn THEN Return(PyNone)
    ELSE IF session.kind = "raise" THEN Raise(MCPError("protocol"))
    ELSE IF session.value.v = << >> THEN Return(Str(<<"No resources available">>))
    ELSE Return(Str(Join(<<"\n">>, ResourceLines(session.value.v))))

\* Mutant of call_tool: the session's exception is not converted.
call_tool_Unwrapped(conn, session) ==
    IF ~conn THEN Raise(MCPError("connection")) ELSE session

\* MCPClient.call_tool: whether session.call_tool(...) is awaited.
call_tool_touches(conn) == conn

\* Mutant of call_tool: a result flagged isError is raised as a tool error.
call_tool_RaiseOnIsError(conn, session) ==
    IF ~conn THEN Raise(MCPError("connection"))
    ELSE IF session.kind = "raise" THEN Raise(MCPError("tool"))
    ELSE IF session.value.isError THEN Raise(MCPError("tool"))
    ELSE Return(session.value)

\* MCPClient.call_tool on a client whose _connected flag is `conn`.
call_tool(conn, session) ==
    IF ~conn THEN Raise(MCPError("connection"))
    ELSE IF session.kind = "raise" THEN Raise(MCPError("tool"))
    ELSE Return(session.value)

\* MCPConfig as connect() reads it: the transport kind, the server command
\* (stdio) and the URL (sse); an absent field is None.
MCPConfig(transport, server_command, sse_url) ==
    [transport |-> transport, server_command |-> server_command,
     sse_url |-> sse_url]

NoConfig == MCPConfig("", PyNone, PyNone)

SERVER_COMMAND == Str(<<"python">>)
SSE_URL == Str(<<"http://localhost:8000/sse">>)

Configs ==
    {MCPConfig("stdio", SERVER_COMMAND, PyNone), MCPConfig("stdio", PyNone, PyNone),
     MCPConfig("sse", PyNone, SSE_URL), MCPConfig("sse", PyNone, PyNone),
     MCPConfig("websocket", PyNone, SSE_URL)}

\* connect() gives up before it opens anything: no command, no URL, or a
\* transport kind it does not know.
Refused(cfg) ==
    IF cfg.transport = "stdio" THEN ~Truthy(cfg.server_command)
    ELSE IF cfg.transport = "sse" THEN ~Truthy(cfg.sse_url)
    ELSE TRUE

\* What the peer does while connect() runs: entering the transport context,
\* entering the session context, session.initialize(), and the exits that
\* closing the exit stack runs.  Each is "ok" or "raise".
ConnectPeers ==
    [transport : {"ok", "raise"}, session : {"ok", "raise"},
     initialize : {"ok", "raise"}, close : {"ok", "raise"}]

\* MCPClient.connect: how far it gets.
connect_stage(cfg, peer) ==
    IF Refused(cfg) THEN "refused"
    ELSE IF peer.transport = "raise" THEN "no_transport"
    ELSE IF peer.session = "raise" THEN "no_session"
    ELSE IF peer.initialize = "raise" THEN "not_initialized"
    ELSE "initialized"

\* MCPClient.connect: what it returns or raises.  On a failure the except
\* block awaits stack.aclose(); with a context already entered on the stack
\* an exit may raise, and nothing catches that.
connect(cfg, peer) ==
    LET stage == connect_stage(cfg, peer) IN
    IF stage = "initialized" THEN Return(PyTrue)
    ELSE IF stage \in {"refused", "no_transport"} THEN Return(PyFalse)
    ELSE IF peer.close = "raise" THEN Raise(Exc("Exception", {}, ""))
    ELSE Return(PyFalse)

\* MCPClient.connect: the _connected flag after the call.
connected_after(conn, cfg, peer) ==
    LET stage == connect_stage(cfg, peer) IN
    IF stage = "initialized" THEN TRUE
    ELSE IF stage = "refused" THEN conn
    ELSE FALSE

\* MCPClient.connect: a handle field (_session, _read/_write) after the call.
handle_after(handle, fresh, cfg, peer) ==
    LET stage == connect_stage(cfg, peer) IN
    IF stage = "initialized" THEN fresh
    ELSE IF stage = "refused" THEN handle
    ELSE "none"

\* MCPClient.connect: the _stack field after the call; only a connect that
\* succeeded stores its exit stack.
stack_after(stk, cfg, peer) ==
    IF connect_stage(cfg, peer) = "initialized" THEN "stack" ELSE stk

\* Mutant of cache_after_connect: a new connection keeps the cached list.
cache_after_connect_Kept(cache, cfg, peer) == cache

\* MCPClient.connect: the tool cache after the call.
cache_after_connect(cache, cfg, peer) ==
    IF connect_stage(cfg, peer) = "initialized" THEN PyNone ELSE cache

\* The transport contexts left open by connect(): the one it entered stays
\* open when it succeeds and is exited by stack.aclose() when it fails.
open_after_connect(open, cfg, peer) ==
    IF connect_stage(cfg, peer) = "initialized" THEN open + 1 ELSE open

\* The transport contexts left open by disconnect(): a connected client
\* closes the stack it holds.
open_after_disconnect(open, conn, stk) ==
    IF conn /\ stk # "none" THEN open - 1 ELSE open

\* Mutant of handle_after_disconnect: the fields are cleared after the
\* close, not in a finally block.
handle_after_disconnect_NoFinally(handle, conn, close) ==
    IF conn /\ close = "ok" THEN "none" ELSE handle

\* MCPClient.disconnect: a handle field (_session, _read/_write, _stack)
\* after the call.  A client that is not connected returns at once; otherwise
\* the finally block clears the field whether or not the close raised.
handle_after_disconnect(handle, conn, close) ==
    IF conn THEN "none" ELSE handle

\* MCPClient.disconnect: the tool cache after the call.
cache_after_disconnect(cache, conn, close) ==
    IF conn THEN PyNone ELSE cache

\* MCPClient.disconnect: what it returns; what the close raises is logged.
disconnect(conn, close) == Return(PyNone)

\* A content block of a tool result: getattr(block, name, None) per field.
Block(text, data, resource) == [text |-> text, data |-> data, resource |-> resource]
TextBlock(s) == Block(Str(s), PyNone, PyNone)

\* mcp_types.CallToolResult
CallToolResult(isError, structuredContent, content) ==
    [isError |-> isError, structuredContent |-> structuredContent,
     content |-> content]

\* The piece one content block contributes to render_tool_result.
BlockPiece(block) ==
    IF Truthy(block.text) THEN block.text.v
    ELSE IF block.data.t \in {"bytes", "bytearray"} THEN <<"<binary data omitted>">>
    ELSE IF Truthy(block.data) THEN block.data.v
    ELSE IF block.resource # PyNone THEN <<"resource(">> \o block.resource.v \o <<")">>
    ELSE <<"block()">>

RECURSIVE BlockPieces(_)
BlockPieces(content) ==
    IF content = << >> THEN << >>
    ELSE <<BlockPiece(Head(content))>> \o BlockPieces(Tail(content))

\* json.dumps(mapping, ensure_ascii=False, indent=2) of a non-empty mapping
json_dumps_indent(mapping) == <<"{\n  ">> \o mapping.v \o <<"\n}">>

\* Mutant of render_tool_result: the structured content comes last.
render_tool_result_BlocksFirst(result) ==
    LET structured ==
            IF Truthy(result.structuredContent)
            THEN <<json_dumps_indent(result.structuredContent)>>
            ELSE << >>
        parts == BlockPieces(result.content) \o structured
    IN Join(<<"\n">>, SkipEmpty(parts))

\* MCPClient.render_tool_result: the structured content pretty-printed first,
\* then one piece per block, joined by newlines with empty pieces skipped.
render_tool_result(result) ==
    LET structured ==
            IF Truthy(result.structuredContent)
            THEN <<json_dumps_indent(result.structuredContent)>>
            ELSE << >>
        parts == structured \o BlockPieces(result.content)
    IN Join(<<"\n">>, SkipEmpty(parts))

\* The structured content {"rows": 1}.
ROWS == Dict(<<"\"rows\"", ": 1">>)

\* The content blocks given to render_tool_result: text, empty text, binary
\* data of both kinds, data that is a string, a resource, and a block with
\* text and data.
RenderBlocks ==
    {TextBlock(<<"hello">>), TextBlock(<< >>),
     Block(PyNone, Bytes(<<"\\x89PNG">>), PyNone),
     Block(PyNone, [t |-> "bytearray", v |-> << >>], PyNone),
     Block(PyNone, Str(<<"aGVsbG8=">>), PyNone),
     Block(PyNone, PyNone, Str(<<"file:///tmp/report.txt">>)),
     Block(Str(<<"caption">>), Bytes(<<"\\x89PNG">>), PyNone)}

\* The tool results given to render_tool_result: no structured content, an
\* empty mapping or {"rows": 1}, with up to MaxBlocks content blocks.
RenderResults ==
    {CallToolResult(FALSE, structuredContent, content) :
        structuredContent \in {PyNone, Dict(<< >>), ROWS},
        content \in UNION {[1..n -> RenderBlocks] : n \in 0..MaxBlocks}}

----------------------------------------------------------------------------
(* Application (src/src/application.py): pure parts *)

\* mcp_types.Tool as the orchestrator reads it.
Tool(name, description) == [name |-> name, description |-> description]

RECURSIVE ToolLines(_)
ToolLines(tools) ==
    IF tools = << >> THEN << >>
    ELSE LET tool == Head(tools)
             description ==
                 IF Truthy(tool.description) THEN tool.description.v
                 ELSE <<"(no description provided)">>
         IN <<(<<"- ">> \o tool.name \o <<": ">> \o description)>>
            \o ToolLines(Tail(tools))

\* Application._format_tool_summary
format_tool_summary(tools) ==
    IF tools = << >> THEN <<"(no MCP tool is available)">>
    ELSE Join(<<"\n">>, ToolLines(tools))

\* Application._build_tool_decision_prompt
build_tool_decision_prompt(tools, user_message) ==
    <<"You may use one of these MCP tools at most once.\n\nTools:\n">>
    \o format_tool_summary(tools)
    \o <<"\n\nAnswer in JSON: respond/message or call_tool/tool/arguments.\n\nRequest:\n">>
    \o user_message \o <<"\n">>

ToolNames(tools) == {tools[i].name : i \in 1..Len(tools)}

\* The three ways the plan validation of _handle_with_tools ends.
Nothing == [kind |-> "none", answer |-> PyNone, tool |-> << >>, arguments |-> PyNone]
Answer(text) == [kind |-> "answer", answer |-> text, tool |-> << >>, arguments |-> PyNone]
Invoke(tool, arguments) ==
    [kind |-> "call", answer |-> PyNone, tool |-> tool, arguments |-> arguments]

\* Mutant of UsableRespondMessage: the emptiness test is inverted.
UsableRespondMessage_Inverted(message_text) ==
    IsStr(message_text) /\ Strip(message_text.v) = << >>

\* isinstance(message_text, str) and message_text.strip()
UsableRespondMessage(message_text) ==
    IsStr(message_text) /\ Strip(message_text.v) # << >>

\* Mutant of KnownTool: the tool name is not looked up.
KnownTool_Unchecked(tool_name, tools) == TRUE

\* tool_name in {tool.name for tool in self._available_tools}
KnownTool(tool_name, tools) == tool_name \in ToolNames(tools)

\* Mutant of UsableArguments: the arguments are passed on as they are.
UsableArguments_AsGiven(args) == args

\* Arguments that are present and not a mapping are replaced by None.
UsableArguments(args) ==
    IF args # PyNone /\ ~IsDict(args) THEN PyNone ELSE args

\* Mutant of PlanDecision: an action other than respond is taken for
\* call_tool.
PlanDecision_AnyActionCalls(plan, tools) ==
    IF ~IsDict(plan) THEN Nothing
    ELSE IF plan.action = Str(<<"respond">>) THEN
        IF UsableRespondMessage(plan.message)
        THEN Answer(plan.message)
        ELSE Nothing
    ELSE IF ~IsStr(plan.tool) \/ plan.tool.v = << >> THEN Nothing
    ELSE IF ~KnownTool(plan.tool.v, tools) THEN Nothing
    ELSE Invoke(plan.tool.v, UsableArguments(plan.arguments))

\* Application._handle_with_tools, from the parsed plan to the tool call.
PlanDecision(plan, tools) ==
    IF ~IsDict(plan) THEN Nothing
    ELSE IF plan.action = Str(<<"respond">>) THEN
        IF UsableRespondMessage(plan.message)
        THEN Answer(plan.message)
        ELSE Nothing
    ELSE IF plan.action # Str(<<"call_tool">>) THEN Nothing
    ELSE IF ~IsStr(plan.tool) \/ plan.tool.v = << >> THEN Nothing
    ELSE IF ~KnownTool(plan.tool.v, tools) THEN Nothing
    ELSE Invoke(plan.tool.v, UsableArguments(plan.arguments))

\* Mutant of tool_failure_answer: the rendered error text is left out.
tool_failure_answer_NoDetail(tool_name, tool_result) ==
    Str(<<"Tool ">> \o tool_name \o <<" failed.">>)

\* The answer for a tool result whose isError flag is set.
tool_failure_answer(tool_name, tool_result) ==
    LET rendered == render_tool_result(tool_result)
        error_text == IF rendered # << >> THEN rendered
                      ELSE <<"The tool reported an error.">>
    IN Str(<<"Tool ">> \o tool_name \o <<" failed. Details: ">> \o error_text)

\* json.dumps(arguments or {})
arguments_json(arguments) ==
    <<"{">> \o (IF Truthy(arguments) THEN arguments.v ELSE << >>) \o <<"}">>

\* The synthesis prompt of _handle_with_tools.
final_prompt(message, tool_name, arguments, tool_output) ==
    <<"Write the final answer from the question and the tool result.\n\n[question]\n">>
    \o message \o <<"\n\n[tool]\n">> \o tool_name
    \o <<"\n[arguments]\n">> \o arguments_json(arguments)
    \o <<"\n\n[result]\n">> \o tool_output \o <<"\n">>

\* Mutant of synthesis_answer: the raw tool output is returned.
synthesis_answer_RawOutput(r, tool_output) == Str(tool_output)

\* What _handle_with_tools returns after the synthesis call.
synthesis_answer(r, tool_output) ==
    IF r.kind = "raise"
    THEN Str(IF tool_output # << >> THEN tool_output
             ELSE <<"The tool ran, but the model did not answer.">>)
    ELSE r.value

\* Mutant of TakesToolAnswer: only None counts as no answer.
TakesToolAnswer_NotNone(tool_based_answer) == tool_based_answer # PyNone

\* handle_user_message: "if tool_based_answer: return tool_based_answer".
TakesToolAnswer(tool_based_answer) == Truthy(tool_based_answer)

\* Mutant of TopLevel: the handler lets the exception through.
TopLevel_Reraise(r) == r

\* handle_user_message: the try/except around the whole sequence.  Every
\* Exception is given to ErrorHandler.handle_error and its user message returned.
TopLevel(r) ==
    IF r.kind = "raise" THEN Return(Str(get_user_message(r.exc))) ELSE r

----------------------------------------------------------------------------
(* What the peers may answer *)

Messages == {<<"list employees">>, <<"hello">>}

T_EXECUTE_SQL == Tool(EXECUTE_SQL, Str(<<"Execute read-only SQL">>))
T_LIST_TABLES == Tool(LIST_TABLES, PyNone)

\* session.list_tools()
ListToolsOutcomes ==
    {SessionRaises} \cup
    {SessionReturns(List(tools)) :
        tools \in {<< >>, <<T_EXECUTE_SQL>>, <<T_LIST_TABLES>>,
                   <<T_EXECUTE_SQL, T_LIST_TABLES>>}}

\* session.list_resources()
ListResourcesOutcomes ==
    {SessionRaises, SessionReturns(List(<< >>)),
     SessionReturns(List(<<Resource(<<"employees">>, <<"postgres://db/employees">>)>>))}

\* session.call_tool(...)
CallToolOutcomes ==
    {SessionRaises} \cup
    {SessionReturns(CallToolResult(isError, PyNone, content)) :
        isError \in BOOLEAN,
        content \in {<< >>, <<TextBlock(<<"id\tname\n1\tAlice">>)>>}}

\* generate_content(...) failing
ApiFailures ==
    {ApiRaises(Exc("ConnectionError", {}, "")),
     ApiRaises(Exc("Exception", {"429"}, "")),
     ApiRaises(Exc("Exception", {"401", "Unauthorized"}, "")),
     ApiRaises(Exc("Exception", {}, ""))}

\* generate_content(...) failing, for a GeminiClient used by itself: errors of
\* the network class and of other classes, with the texts send_message looks
\* for, one it does not look for, and two of them at once.
ApiErrorTexts ==
    {{}, {"429"}, {"Too Many Requests"}, {"401"}, {"403"}, {"Unauthorized"},
     {"Forbidden"}, {"429", "401"}}

GeminiApiFailures ==
    {ApiRaises(Exc("Exception", markers, "")) : markers \in ApiErrorTexts}
    \cup {ApiRaises(Exc("ConnectionError", markers, "")) :
              markers \in {{}, {"429"}, {"401"}}}
    \cup {ApiRaises(Exc("TimeoutError", markers, "")) :
              markers \in {{}, {"403"}}}

\* generate_content(...) for a text request
TextOutcomes ==
    ApiFailures \cup
    {ApiResponse(PyNone), ApiResponse(Str(<< >>)),
     ApiResponse(Str(<<"Here is the employee list: Alice (id 1).">>))}

\* generate_content(...) for a request in JSON mode
JsonOutcomes ==
    ApiFailures \cup
    {ApiResponse(PyNone), ApiResponse(Str(<<"Sure, here is the plan">>))} \cup
    {ApiResponse(Str(JsonText(doc))) : doc \in JsonDocs}

----------------------------------------------------------------------------
(* State *)

VARIABLES
    gemini_client,          \* Application._gemini_client: "none" or "client"
    mcp_client,             \* Application._mcp_client: "none" or "client"
    connected,              \* MCPClient._connected
    tool_cache,             \* MCPClient._tool_cache: None or a list of tools
    available_tools,        \* Application._available_tools
    conversation_history,   \* GeminiClient._conversation_history
    pc,                     \* where handle_user_message stands
    handled,                \* calls of handle_user_message so far
    message,                \* the message being handled
    context,                \* local: the auxiliary context
    plan,                   \* local: what send_json returned or raised
    tool_name,              \* local: the tool the plan names
    arguments,              \* local: the arguments given to the tool
    tool_result,            \* local: what call_tool returned or raised
    tool_based_answer,      \* local: what _handle_with_tools returned
    result,                 \* what handle_user_message returned or raised
    calls,                  \* the transport calls of this message, in order
    config,                 \* MCPClient.config (NoConfig before a client exists)
    mcp_session,            \* MCPClient._session: "none" or "session"
    read_write,             \* MCPClient._read, _write: "none" or "streams"
    stack,                  \* MCPClient._stack: "none" or "stack"
    open_transports,        \* transport contexts entered and not yet exited
    counts,                 \* list_tools calls on the client since it connected
    client_calls,           \* operations invoked on the client directly
    returned,               \* the last start/shutdown or client operation
    error,                  \* the exception given to ErrorHandler.handle_error
    error_source,           \* its error_source argument
    error_context,          \* the ErrorContext handle_error returned
    rendered,               \* what render_tool_result returned
    main                    \* the frame of main(): where it stands, what it did

mcp == <<config, mcp_session, read_write, stack, open_transports, counts,
            client_calls, returned>>
pure == <<error, error_source, error_context, rendered>>
app == <<gemini_client, mcp_client, connected, tool_cache, available_tools,
         mcp, pure, main>>
locals == <<message, context, plan, tool_name, arguments, tool_result,
            tool_based_answer, result, calls>>
vars == <<app, conversation_history, pc, handled, locals>>

NoResult == [kind |-> "pending", value |-> PyNone, exc |-> NoExc]

\* One transport call as the orchestrator makes it: the client method and
\* its arguments, what the peer answered (reply) and what the client method
\* returned or raised (outcome).  For a model call, contents is what
\* goes to generate_content.
Call(op, text, ctx, tool, args, persist, reply, outcome) ==
    [op |-> op, text |-> text, context |-> ctx, tool |-> tool,
     arguments |-> args, persist_history |-> persist,
     contents |-> IF op \in {"send_json", "send_message"}
                  THEN request_contents(conversation_history, text, ctx)
                  ELSE << >>,
     reply |-> reply, outcome |-> outcome]

FreshLocals(m, r) ==
    /\ message' = m
    /\ context' = PyNone
    /\ plan' = NoResult
    /\ tool_name' = << >>
    /\ arguments' = PyNone
    /\ tool_result' = NoResult
    /\ tool_based_answer' = PyNone
    /\ result' = r
    /\ calls' = << >>

\* The counters of a client that has just been constructed or connected:
\* list_tools calls without and with force_refresh, session.list_tools calls
\* issued, and how many of those failed.
NoCounts == [unforced |-> 0, forced |-> 0, issued |-> 0, failed |-> 0]

NothingReturned == [op |-> "none"]

\* The frame of main(): the statement it stands at (pc), the exit code it
\* returned (<<0>> or <<1>>, NoExit before it returns), how often it called
\* app.start() and app.shutdown(), what ended the chat loop or the run
\* (ended_by), and how many lines input() has returned.
Frame(at, exit_code, starts, shutdowns, ended_by, inputs) ==
    [pc |-> at, exit_code |-> exit_code, starts |-> starts,
     shutdowns |-> shutdowns, ended_by |-> ended_by, inputs |-> inputs]

NoExit == << >>

\* main() is not running.
NotRunning == Frame("none", NoExit, 0, 0, "", 0)

\* MCPClient.__init__
InitClient(cfg) ==
    /\ config = cfg
    /\ connected = FALSE
    /\ mcp_session = "none"
    /\ read_write = "none"
    /\ stack = "none"
    /\ tool_cache = PyNone
    /\ open_transports = 0
    /\ counts = NoCounts
    /\ client_calls = 0
    /\ returned = NothingReturned

\* Application.__init__, and no message being handled.
InitApplication ==
    /\ gemini_client = "none"
    /\ mcp_client = "none"
    /\ available_tools = << >>
    /\ conversation_history = << >>
    /\ pc = "idle"
    /\ handled = 0
    /\ message = << >>
    /\ context = PyNone
    /\ plan = NoResult
    /\ tool_name = << >>
    /\ arguments = PyNone
    /\ tool_based_answer = PyNone
    /\ result = NoResult
    /\ calls = << >>

\* No error has been given to the ErrorHandler.
InitHandler ==
    /\ error = NoExc
    /\ error_source = PyNone
    /\ error_context = NoErrorContext

Init ==
    /\ InitApplication
    /\ InitClient(NoConfig)
    /\ InitHandler
    /\ tool_result = NoResult
    /\ rendered = PyNone
    /\ main = NotRunning

----------------------------------------------------------------------------
(* Operations *)

\* MCPClient.list_tools: what it returns or raises.
list_tools(conn, cache, force_refresh, session) ==
    IF ~conn THEN Return(List(<< >>))
    ELSE IF cache = PyNone \/ force_refresh THEN
        IF session.kind = "raise" THEN Raise(MCPError("protocol"))
        ELSE Return(List(session.value.v))
    ELSE Return(cache)

\* Mutant of tool_cache_after: the fetched list is not kept.
tool_cache_after_Forgetful(conn, cache, force_refresh, session) == cache

\* Mutant of tool_cache_after: a failed fetch drops the cached list.
tool_cache_after_DroppedOnFailure(conn, cache, force_refresh, session) ==
    IF conn /\ (cache = PyNone \/ force_refresh)
    THEN IF session.kind = "return" THEN List(session.value.v) ELSE PyNone
    ELSE cache

\* MCPClient.list_tools: the tool cache after the call.
tool_cache_after(conn, cache, force_refresh, session) ==
    IF conn /\ (cache = PyNone \/ force_refresh) /\ session.kind = "return"
    THEN List(session.value.v)
    ELSE cache

\* "except GeminiError" / "except MCPError" inside the try of the handler.
Caught(r, cls) == r.kind = "raise" /\ r.exc.cls = cls

Idle == pc \in {"idle", "done"}

\* MCPClient.list_tools: whether session.list_tools() is awaited.
list_tools_issues(conn, cache, force_refresh) ==
    conn /\ (cache = PyNone \/ force_refresh)

\* The counters after one list_tools call answered `session`.
counts_after(c, conn, cache, force_refresh, session) ==
    IF ~conn THEN c
    ELSE LET issues == list_tools_issues(conn, cache, force_refresh) IN
         [unforced |-> c.unforced + (IF force_refresh THEN 0 ELSE 1),
          forced |-> c.forced + (IF force_refresh THEN 1 ELSE 0),
          issued |-> c.issued + (IF issues THEN 1 ELSE 0),
          failed |-> c.failed
                     + (IF issues /\ session.kind = "raise" THEN 1 ELSE 0)]

\* config.mcp_server: None or the settings of one server.
MCPServerSettings(transport, command, url) ==
    [transport |-> transport, command |-> command, url |-> url]

\* The settings the application is started with: a stdio server, and settings
\* whose command or URL is missing.  An sse server with its URL differs from
\* the stdio one only inside connect(), where Configs covers it.
ServerSettings ==
    {MCPServerSettings("stdio", SERVER_COMMAND, PyNone),
     MCPServerSettings("stdio", PyNone, PyNone),
     MCPServerSettings("sse", PyNone, PyNone)}

\* Application._build_mcp_config: everything that is not stdio becomes sse.
build_mcp_config(settings) ==
    IF settings.transport = "stdio"
    THEN MCPConfig("stdio", settings.command, PyNone)
    ELSE MCPConfig("sse", PyNone, settings.url)

\* Application.start: whether self._mcp_client is kept.  The client is dropped
\* when connect() returned False and when an exception reached the outer
\* handler; an MCPError of list_tools is caught by the inner handler.
keeps_client(c, listed) ==
    /\ c = Return(PyTrue)
    /\ listed.kind = "raise" => Caught(listed, "MCPError")

\* Application.start: the Gemini client is created; with server settings the
\* MCP client is created and connected and the tool list fetched once.
Start(server_settings, peer, session_reply) ==
    /\ Idle
    /\ gemini_client = "none"
    /\ gemini_client' = "client"
    /\ IF server_settings = PyNone THEN
            /\ returned' = [op |-> "start", connect |-> NoResult,
                            list_tools |-> NoResult, outcome |-> Return(PyNone)]
            /\ UNCHANGED <<mcp_client, connected, tool_cache, available_tools,
                           config, mcp_session, read_write, stack,
                           open_transports, counts>>
       ELSE LET cfg == build_mcp_config(server_settings)
                c == connect(cfg, peer)
                conn == connected_after(FALSE, cfg, peer)
                listed == IF c = Return(PyTrue)
                          THEN list_tools(conn, PyNone, FALSE, session_reply)
                          ELSE NoResult
            IN
            /\ config' = cfg
            /\ connected' = conn
            /\ mcp_session' = handle_after("none", "session", cfg, peer)
            /\ read_write' = handle_after("none", "streams", cfg, peer)
            /\ stack' = stack_after("none", cfg, peer)
            /\ open_transports' = open_after_connect(open_transports, cfg, peer)
            /\ tool_cache' =
                   IF c = Return(PyTrue)
                   THEN tool_cache_after(conn, PyNone, FALSE, session_reply)
                   ELSE PyNone
            /\ counts' =
                   IF c = Return(PyTrue)
                   THEN counts_after(NoCounts, conn, PyNone, FALSE, session_reply)
                   ELSE NoCounts
            /\ mcp_client' = IF keeps_client(c, listed) THEN "client" ELSE "none"
            /\ available_tools' =
                   IF listed.kind = "return" THEN listed.value.v ELSE << >>
            /\ returned' = [op |-> "start", connect |-> c,
                            list_tools |-> listed, outcome |-> Return(PyNone)]
    /\ pc' = "idle"
    /\ FreshLocals(<< >>, NoResult)
    /\ UNCHANGED <<conversation_history, handled, client_calls, pure, main>>

\* Mutant of tools_after_shutdown: the tool list is kept.
tools_after_shutdown_Kept(tools) == tools

\* Application.shutdown: self._available_tools after the call.
tools_after_shutdown(tools) == << >>

\* Application.shutdown: what it returns, given what disconnect() did (NoResult
\* when there is no MCP client); an Exception from disconnect() is logged.
shutdown(disconnected) == Return(PyNone)

\* Application.shutdown: the MCP client, when there is one, is disconnected,
\* and the tool list emptied.  `close` is what closing the transport does.
Shutdown(close) ==
    /\ Idle
    /\ gemini_client = "client"
    /\ LET conn == mcp_client = "client" /\ connected
           disconnected == IF mcp_client = "client"
                           THEN disconnect(connected, close) ELSE NoResult
       IN /\ connected' = IF conn THEN FALSE ELSE connected
          /\ mcp_session' = handle_after_disconnect(mcp_session, conn, close)
          /\ read_write' = handle_after_disconnect(read_write, conn, close)
          /\ stack' = handle_after_disconnect(stack, conn, close)
          /\ tool_cache' = cache_after_disconnect(tool_cache, conn, close)
          /\ counts' = IF conn THEN NoCounts ELSE counts
          /\ open_transports' =
                 open_after_disconnect(open_transports, conn, stack)
          /\ returned' = [op |-> "shutdown",
                          close |-> IF conn THEN close ELSE "none",
                          outcome |-> shutdown(disconnected)]
    /\ available_tools' = tools_after_shutdown(available_tools)
    /\ pc' = "idle"
    /\ FreshLocals(<< >>, NoResult)
    /\ UNCHANGED <<gemini_client, mcp_client, conversation_history, handled,
                   config, client_calls, pure, main>>

\* Mutant of McpConnected: the connection state is not asked.
McpConnected_ClientOnly == mcp_client = "client"

\* self._mcp_client and self._mcp_client.is_connected()
McpConnected == mcp_client = "client" /\ connected

\* Mutant of ToolsUsable: the known tools are not asked for.
ToolsUsable_AnyToolSet ==
    /\ gemini_client = "client"
    /\ McpConnected

\* _handle_with_tools gives up before the plan request unless the MCP client
\* is connected and at least one tool is known.
ToolsUsable ==
    /\ gemini_client = "client"
    /\ McpConnected
    /\ available_tools # << >>

\* Mutant of Uninitialized: the entry check of handle_user_message is gone.
Uninitialized_Never(client) == FALSE

\* handle_user_message: "if self._gemini_client is None"
Uninitialized(client) == client = "none"

\* handle_user_message is entered: without a Gemini client it raises
\* RuntimeError; with a connected MCP client it fetches the context first.
HandleUserMessage(m) ==
    /\ Idle
    /\ handled < MaxMessages
    /\ handled' = handled + 1
    /\ IF Uninitialized(gemini_client)
       THEN /\ pc' = "done"
            /\ FreshLocals(m, Raise(RuntimeError))
       ELSE /\ pc' = IF McpConnected THEN "get_context" ELSE "send_message"
            /\ FreshLocals(m, NoResult)
    /\ UNCHANGED <<app, conversation_history>>

\* An exception no inner handler caught reaches the handler of
\* handle_user_message, which ends the call.
Propagate(r) ==
    /\ pc' = "done"
    /\ result' = TopLevel(r)
    /\ UNCHANGED tool_based_answer

\* Mutant of NextAfterToolPath: planning is tried again when the
\* tool-assisted path gave nothing.
NextAfterToolPath_Replan(answer) ==
    IF Truthy(answer) THEN "done" ELSE "send_json"

\* Where handle_user_message goes once _handle_with_tools returned `answer`.
NextAfterToolPath(answer) ==
    IF TakesToolAnswer(answer) THEN "done" ELSE "send_message"

\* The tool-assisted path returned `answer`: a truthy answer is the result,
\* anything else leads to the plain model call.
LeaveToolPath(answer) ==
    /\ tool_based_answer' = answer
    /\ pc' = NextAfterToolPath(answer)
    /\ IF pc' = "done" THEN result' = TopLevel(Return(answer))
       ELSE UNCHANGED result

\* await self._mcp_client.get_context(); an MCPError means no context.  Then
\* _handle_with_tools is entered.
GetContext(session) ==
    /\ pc = "get_context"
    /\ LET r == get_context(connected, session) IN
       /\ calls' = Append(calls, Call("get_context", << >>, PyNone, << >>,
                                      PyNone, FALSE, session, r))
       /\ IF r.kind = "raise" /\ ~Caught(r, "MCPError")
          THEN Propagate(r) /\ UNCHANGED context
          ELSE /\ context' = IF r.kind = "raise" THEN PyNone ELSE r.value
               /\ IF ToolsUsable
                  THEN pc' = "send_json" /\ UNCHANGED <<tool_based_answer, result>>
                  ELSE LeaveToolPath(PyNone)
    /\ UNCHANGED <<app, conversation_history, handled, message, plan,
                   tool_name, arguments, tool_result>>

\* await self._gemini_client.send_json(prompt) and the validation of the plan.
PlanRequest(api) ==
    /\ pc = "send_json"
    /\ LET prompt == build_tool_decision_prompt(available_tools, message)
           r == send_json(api)
           decision == IF r.kind = "raise" THEN Nothing
                       ELSE PlanDecision(r.value, available_tools)
       IN /\ plan' = r
          /\ calls' = Append(calls, Call("send_json", prompt, PyNone, << >>,
                                         PyNone, FALSE, api, r))
          /\ conversation_history' =
                 history_after(conversation_history, prompt, api, FALSE)
          /\ IF r.kind = "raise" /\ ~Caught(r, "GeminiError")
             THEN Propagate(r) /\ UNCHANGED <<tool_name, arguments>>
             ELSE IF decision.kind = "call"
             THEN /\ pc' = "call_tool"
                  /\ tool_name' = decision.tool
                  /\ arguments' = decision.arguments
                  /\ UNCHANGED <<tool_based_answer, result>>
             ELSE /\ LeaveToolPath(decision.answer)
                  /\ UNCHANGED <<tool_name, arguments>>
    /\ UNCHANGED <<app, handled, message, context, tool_result>>

\* await self._mcp_client.call_tool(tool_name, arguments); a result flagged
\* isError is answered with the failure text.
CallTool(session) ==
    /\ pc = "call_tool"
    /\ LET r == call_tool(connected, session) IN
       /\ tool_result' = r
       /\ calls' = Append(calls, Call("call_tool", << >>, PyNone, tool_name,
                                      arguments, FALSE, session, r))
       /\ IF r.kind = "raise" /\ ~Caught(r, "MCPError") THEN Propagate(r)
          ELSE IF r.kind = "raise" THEN LeaveToolPath(PyNone)
          ELSE IF r.value.isError
              THEN LeaveToolPath(tool_failure_answer(tool_name, r.value))
          ELSE pc' = "synthesis" /\ UNCHANGED <<tool_based_answer, result>>
    /\ UNCHANGED <<app, conversation_history, handled, message, context, plan,
                   tool_name, arguments>>

\* await self._gemini_client.send_message(final_prompt, persist_history=False)
Synthesis(api) ==
    /\ pc = "synthesis"
    /\ LET tool_output == render_tool_result(tool_result.value)
           prompt == final_prompt(message, tool_name, arguments, tool_output)
           r == send_message(api)
       IN /\ calls' = Append(calls, Call("send_message", prompt, PyNone, << >>,
                                         PyNone, FALSE, api, r))
          /\ conversation_history' =
                 history_after(conversation_history, prompt, api, FALSE)
          /\ IF r.kind = "raise" /\ ~Caught(r, "GeminiError") THEN Propagate(r)
             ELSE LeaveToolPath(synthesis_answer(r, tool_output))
    /\ UNCHANGED <<app, handled, message, context, plan, tool_name, arguments,
                   tool_result>>

\* await self._gemini_client.send_message(message, context=context): the
\* plain path, which ends handle_user_message.
SendMessage(api) ==
    /\ pc = "send_message"
    /\ LET r == send_message(api) IN
       /\ calls' = Append(calls, Call("send_message", message, context, << >>,
                                      PyNone, TRUE, api, r))
       /\ result' = TopLevel(r)
    /\ conversation_history' =
           history_after(conversation_history, message, api, TRUE)
    /\ pc' = "done"
    /\ UNCHANGED <<app, handled, message, context, plan, tool_name, arguments,
                   tool_result, tool_based_answer>>

Next ==
    \/ \E server_settings \in {PyNone} \cup ServerSettings :
           \E peer \in ConnectPeers, session_reply \in ListToolsOutcomes :
               Start(server_settings, peer, session_reply)
    \/ \E close \in {"ok", "raise"} : Shutdown(close)
    \/ \E m \in Messages : HandleUserMessage(m)
    \/ \E session \in ListResourcesOutcomes : GetContext(session)
    \/ \E api \in JsonOutcomes : PlanRequest(api)
    \/ \E session \in CallToolOutcomes : CallTool(session)
    \/ \E api \in TextOutcomes : Synthesis(api)
    \/ \E api \in TextOutcomes : SendMessage(api)

Spec == Init /\ [][Next]_vars

----------------------------------------------------------------------------
(* MCPClient used by itself: connect, list_tools, call_tool and disconnect *)
(* in any order on one client, no application around it.                  *)

\* "not self._connected or self._session is None", negated
Usable == connected /\ mcp_session # "none"

ApplicationUntouched ==
    UNCHANGED <<gemini_client, mcp_client, available_tools,
                conversation_history, pc, handled, locals, pure, main>>

\* await client.connect()
ClientConnect(peer) ==
    /\ client_calls < MaxClientCalls
    /\ client_calls' = client_calls + 1
    /\ connected' = connected_after(connected, config, peer)
    /\ mcp_session' = handle_after(mcp_session, "session", config, peer)
    /\ read_write' = handle_after(read_write, "streams", config, peer)
    /\ stack' = stack_after(stack, config, peer)
    /\ tool_cache' = cache_after_connect(tool_cache, config, peer)
    /\ open_transports' = open_after_connect(open_transports, config, peer)
    /\ counts' = IF connect_stage(config, peer) = "initialized"
                 THEN NoCounts ELSE counts
    /\ returned' = [op |-> "connect", peer |-> peer,
                    outcome |-> connect(config, peer)]
    /\ UNCHANGED config
    /\ ApplicationUntouched

\* await client.list_tools(force_refresh)
ClientListTools(force_refresh, session_reply) ==
    /\ client_calls < MaxClientCalls
    /\ client_calls' = client_calls + 1
    /\ tool_cache' =
           tool_cache_after(Usable, tool_cache, force_refresh, session_reply)
    /\ counts' =
           counts_after(counts, Usable, tool_cache, force_refresh, session_reply)
    /\ returned' =
           [op |-> "list_tools", force_refresh |-> force_refresh,
            usable |-> Usable, cache_before |-> tool_cache,
            issued |-> list_tools_issues(Usable, tool_cache, force_refresh),
            reply |-> session_reply,
            outcome |-> list_tools(Usable, tool_cache, force_refresh,
                                   session_reply)]
    /\ UNCHANGED <<config, connected, mcp_session, read_write, stack,
                   open_transports>>
    /\ ApplicationUntouched

\* await client.call_tool(name, arguments)
ClientCallTool(session_reply) ==
    /\ client_calls < MaxClientCalls
    /\ client_calls' = client_calls + 1
    /\ returned' = [op |-> "call_tool", usable |-> Usable,
                    touched |-> call_tool_touches(Usable),
                    reply |-> session_reply,
                    outcome |-> call_tool(Usable, session_reply)]
    /\ UNCHANGED <<config, connected, mcp_session, read_write, stack,
                   tool_cache, open_transports, counts>>
    /\ ApplicationUntouched

\* await client.disconnect(); what closing the stack raises is logged only.
ClientDisconnect(close) ==
    /\ client_calls < MaxClientCalls
    /\ client_calls' = client_calls + 1
    /\ connected' = FALSE
    /\ mcp_session' = handle_after_disconnect(mcp_session, connected, close)
    /\ read_write' = handle_after_disconnect(read_write, connected, close)
    /\ stack' = handle_after_disconnect(stack, connected, close)
    /\ tool_cache' = cache_after_disconnect(tool_cache, connected, close)
    /\ counts' = IF connected THEN NoCounts ELSE counts
    /\ open_transports' =
           open_after_disconnect(open_transports, connected, stack)
    /\ returned' = [op |-> "disconnect", close |-> close,
                    connected_before |-> connected,
                    outcome |-> disconnect(connected, close)]
    /\ UNCHANGED config
    /\ ApplicationUntouched

\* client = MCPClient(config=cfg)
ClientInit ==
    /\ InitApplication
    /\ \E cfg \in Configs : InitClient(cfg)
    /\ InitHandler
    /\ tool_result = NoResult
    /\ rendered = PyNone
    /\ main = NotRunning

ClientNext ==
    \/ \E peer \in ConnectPeers : ClientConnect(peer)
    \/ \E force_refresh \in BOOLEAN :
           \E session_reply \in ListToolsOutcomes :
               ClientListTools(force_refresh, session_reply)
    \/ \E session_reply \in CallToolOutcomes : ClientCallTool(session_reply)
    \/ \E close \in {"ok", "raise"} : ClientDisconnect(close)

ClientSpec == ClientInit /\ [][ClientNext]_vars

----------------------------------------------------------------------------
(* ErrorHandler.handle_error applied to one error *)

ErrorInit ==
    /\ InitApplication
    /\ InitClient(NoConfig)
    /\ \E e \in Errors, source \in ErrorSources :
           error = e /\ error_source = source
    /\ error_context = NoErrorContext
    /\ tool_result = NoResult
    /\ rendered = PyNone
    /\ main = NotRunning

\* error_context = ErrorHandler.handle_error(error, error_source=error_source)
HandleError ==
    /\ error_context = NoErrorContext
    /\ error_context' = handle_error(error, error_source)
    /\ UNCHANGED <<gemini_client, mcp_client, connected, tool_cache,
                   available_tools, mcp, error, error_source, rendered,
                   conversation_history, pc, handled, locals, main>>

ErrorNext == HandleError

ErrorSpec == ErrorInit /\ [][ErrorNext]_vars

----------------------------------------------------------------------------
(* MCPClient.render_tool_result applied to one tool result *)

RenderInit ==
    /\ InitApplication
    /\ InitClient(NoConfig)
    /\ InitHandler
    /\ \E r \in RenderResults : tool_result = Return(r)
    /\ rendered = PyNone
    /\ main = NotRunning

\* rendered = MCPClient.render_tool_result(tool_result)
Render ==
    /\ rendered = PyNone
    /\ rendered' = Str(render_tool_result(tool_result.value))
    /\ UNCHANGED <<gemini_client, mcp_client, connected, tool_cache,
                   available_tools, mcp, error, error_source, error_context,
                   conversation_history, pc, handled, locals, main>>

RenderNext == Render

RenderSpec == RenderInit /\ [][RenderNext]_vars

----------------------------------------------------------------------------
(* GeminiClient used by itself: send_message, send_json and                *)
(* reset_conversation in any order on one client.                          *)

GeminiUntouched ==
    UNCHANGED <<gemini_client, mcp_client, connected, tool_cache,
                available_tools, config, mcp_session, read_write, stack,
                open_transports, counts, pure, pc, handled, locals, main>>

Contexts == {PyNone, Str(<<"Available resources:">>)}

\* await client.send_message(m, context=ctx, persist_history=persist)
GeminiSendMessage(m, ctx, persist, api) ==
    /\ client_calls < MaxGeminiCalls
    /\ client_calls' = client_calls + 1
    /\ conversation_history' =
           history_after(conversation_history, m, api, persist)
    /\ returned' = [op |-> "send_message", text |-> m, context |-> ctx,
                    persist_history |-> persist,
                    contents |-> request_contents(conversation_history, m, ctx),
                    history_before |-> conversation_history,
                    reply |-> api, outcome |-> send_message(api)]
    /\ GeminiUntouched

\* await client.send_json(m, context=ctx)
GeminiSendJson(m, ctx, api) ==
    /\ client_calls < MaxGeminiCalls
    /\ client_calls' = client_calls + 1
    /\ conversation_history' =
           history_after(conversation_history, m, api, FALSE)
    /\ returned' = [op |-> "send_json", text |-> m, context |-> ctx,
                    persist_history |-> FALSE,
                    contents |-> request_contents(conversation_history, m, ctx),
                    history_before |-> conversation_history,
                    reply |-> api, outcome |-> send_json(api)]
    /\ GeminiUntouched

\* await client.reset_conversation()
GeminiResetConversation ==
    /\ client_calls < MaxGeminiCalls
    /\ client_calls' = client_calls + 1
    /\ conversation_history' = reset_conversation(conversation_history)
    /\ returned' = [op |-> "reset_conversation",
                    history_before |-> conversation_history,
                    outcome |-> Return(PyNone)]
    /\ GeminiUntouched

\* client = GeminiClient(api_key): the history is empty.
GeminiInit ==
    /\ InitApplication
    /\ InitClient(NoConfig)
    /\ InitHandler
    /\ tool_result = NoResult
    /\ rendered = PyNone
    /\ main = NotRunning

GeminiNext ==
    \/ \E m \in Messages, ctx \in Contexts, persist \in BOOLEAN :
           \E api \in GeminiApiFailures \cup TextOutcomes :
               GeminiSendMessage(m, ctx, persist, api)
    \/ \E m \in Messages :
           \E api \in GeminiApiFailures \cup JsonOutcomes :
               GeminiSendJson(m, PyNone, api)
    \/ GeminiResetConversation

GeminiSpec == GeminiInit /\ [][GeminiNext]_vars

----------------------------------------------------------------------------
(* main() (src/src/main.py): load the configuration, start the            *)
(* application, run the chat loop, shut down.  The configuration names no  *)
(* MCP server, so every message takes the plain path.                      *)

ExceptionClasses == {"ConfigValidationError", "EOFError", "Exception"}

\* Mutant of main_on_raise: the chat loop breaks on whatever is raised.
main_on_raise_BreakOnAny(where, cls) ==
    IF where = "loop" THEN [pc |-> "shutdown", exit_code |-> NoExit]
    ELSE IF cls \in ExceptionClasses THEN [pc |-> "returned", exit_code |-> <<1>>]
    ELSE [pc |-> "raised", exit_code |-> NoExit]

\* Where main() goes when a statement raises: a KeyboardInterrupt inside the
\* chat loop breaks out of it towards app.shutdown(); ConfigValidationError
\* and any other Exception make main() return 1; what is not an Exception
\* (KeyboardInterrupt outside the loop, CancelledError) leaves main().
main_on_raise(where, cls) ==
    IF where = "loop" /\ cls = "KeyboardInterrupt"
        THEN [pc |-> "shutdown", exit_code |-> NoExit]
    ELSE IF cls \in ExceptionClasses THEN [pc |-> "returned", exit_code |-> <<1>>]
    ELSE [pc |-> "raised", exit_code |-> NoExit]

\* The frame of main() after a statement raised.
Raised(frame, where, cls) ==
    [frame EXCEPT !.pc = main_on_raise(where, cls).pc,
                  !.exit_code = main_on_raise(where, cls).exit_code,
                  !.ended_by = cls]

\* "if not user_input.strip(): continue"
IsBlank(user_input) == Strip(user_input) = << >>

InputLines == {<< >>, <<" ">>} \cup Messages

MainUntouched ==
    UNCHANGED <<mcp_client, connected, tool_cache, mcp, pure, pc, context,
                plan, tool_name, arguments, tool_result, tool_based_answer,
                calls>>

\* config = ConfigurationManager.load_config(); app = Application(config)
MainLoadConfig(outcome) ==
    /\ main.pc = "load_config"
    /\ main' = IF outcome = "return" THEN [main EXCEPT !.pc = "start"]
               ELSE Raised(main, "load_config", outcome)
    /\ UNCHANGED <<gemini_client, available_tools, conversation_history,
                   handled, message, result>>
    /\ MainUntouched

\* await app.start(), with no MCP server configured
MainStart(outcome) ==
    /\ main.pc = "start"
    /\ IF outcome = "return"
       THEN /\ gemini_client' = "client"
            /\ main' = [main EXCEPT !.pc = "input", !.starts = @ + 1]
       ELSE /\ UNCHANGED gemini_client
            /\ main' = Raised([main EXCEPT !.starts = @ + 1], "start", outcome)
    /\ UNCHANGED <<available_tools, conversation_history, handled, message,
                   result>>
    /\ MainUntouched

\* user_input = input("You: ") returning a line
MainInput(user_input) ==
    /\ main.pc = "input"
    /\ main.inputs < MaxInputs
    /\ main' = [main EXCEPT !.inputs = @ + 1,
                            !.pc = IF IsBlank(user_input) THEN "input"
                                   ELSE "handle"]
    /\ message' = IF IsBlank(user_input) THEN message ELSE user_input
    /\ UNCHANGED <<gemini_client, available_tools, conversation_history,
                   handled, result>>
    /\ MainUntouched

\* input("You: ") raising: Ctrl+C or the end of the input
MainInputRaises(cls) ==
    /\ main.pc = "input"
    /\ main' = Raised(main, "loop", cls)
    /\ UNCHANGED <<gemini_client, available_tools, conversation_history,
                   handled, message, result>>
    /\ MainUntouched

\* response = await app.handle_user_message(user_input); print(response)
MainHandle(api) ==
    /\ main.pc = "handle"
    /\ result' = TopLevel(send_message(api))
    /\ conversation_history' =
           history_after(conversation_history, message, api, TRUE)
    /\ handled' = handled + 1
    /\ main' = [main EXCEPT !.pc = "input"]
    /\ UNCHANGED <<gemini_client, available_tools, message>>
    /\ MainUntouched

\* await app.handle_user_message(user_input) interrupted while it waits
MainHandleRaises(cls) ==
    /\ main.pc = "handle"
    /\ main' = Raised(main, "loop", cls)
    /\ UNCHANGED <<gemini_client, available_tools, conversation_history,
                   handled, message, result>>
    /\ MainUntouched

\* await app.shutdown(); return 0
MainShutdown(outcome) ==
    /\ main.pc = "shutdown"
    /\ available_tools' = << >>
    /\ main' = IF outcome = "return"
               THEN [main EXCEPT !.pc = "returned", !.exit_code = <<0>>,
                                 !.shutdowns = @ + 1]
               ELSE Raised([main EXCEPT !.shutdowns = @ + 1], "shutdown",
                           outcome)
    /\ UNCHANGED <<gemini_client, conversation_history, handled, message,
                   result>>
    /\ MainUntouched

\* main() has been called.
MainInit ==
    /\ InitApplication
    /\ InitClient(NoConfig)
    /\ InitHandler
    /\ tool_result = NoResult
    /\ rendered = PyNone
    /\ main = Frame("load_config", NoExit, 0, 0, "", 0)

MainNext ==
    \/ \E outcome \in {"return", "ConfigValidationError", "Exception"} :
           MainLoadConfig(outcome)
    \/ \E outcome \in {"return", "KeyboardInterrupt"} : MainStart(outcome)
    \/ \E user_input \in InputLines : MainInput(user_input)
    \/ \E cls \in {"KeyboardInterrupt", "EOFError"} : MainInputRaises(cls)
    \/ \E api \in TextOutcomes : MainHandle(api)
    \/ \E cls \in {"KeyboardInterrupt", "CancelledError"} :
           MainHandleRaises(cls)
    \/ \E outcome \in {"return", "KeyboardInterrupt"} : MainShutdown(outcome)

MainSpec == MainInit /\ [][MainNext]_vars

----------------------------------------------------------------------------
(* Properties *)

Done == pc = "done"
Started == gemini_client = "client"

IsContextFetch(c) == c.op = "get_context"
IsPlanRequest(c) == c.op = "send_json"
IsToolCall(c) == c.op = "call_tool"
IsSynthesis(c) == c.op = "send_message" /\ ~c.persist_history
IsPlain(c) == c.op = "send_message" /\ c.persist_history

Count(P(_)) == Cardinality({i \in 1..Len(calls) : P(calls[i])})
LastCall == calls[Len(calls)]

GoodReply == Str(<<"Here is the employee list: Alice (id 1).">>)

\* The message was answered by the plain path: the one history-persisting
\* send_message, with the raw message and the context, is the last call, and
\* when it returned a text that text is the result.
AnsweredByPlainCall ==
    /\ calls # << >>
    /\ Count(IsPlain) = 1
    /\ IsPlain(LastCall)
    /\ LastCall.text = message
    /\ LastCall.context = context
    /\ LastCall.outcome.kind = "return" => result = Return(LastCall.reply.value)

RespondPlan ==
    /\ plan.kind = "return"
    /\ IsDict(plan.value)
    /\ plan.value.action = Str(<<"respond">>)

CallToolPlan ==
    /\ plan.kind = "return"
    /\ IsDict(plan.value)
    /\ plan.value.action = Str(<<"call_tool">>)
    /\ IsStr(plan.value.tool)

\* C1: once the Gemini client exists, every handle_user_message ends by
\* returning a string, never by raising, whichever transport calls failed;
\* no result exists before it ends.
C1_ReturnsOneString ==
    /\ (Done /\ Started) => (result.kind = "return" /\ IsStr(result.value))
    /\ (Started /\ pc \notin {"idle", "done"}) => result = NoResult

\* The context fetch, the plan request and the plain call all failed and the
\* message was still answered with a string.
C1_Witness ==
    /\ Done /\ Started
    /\ Len(calls) = 3
    /\ \A i \in 1..3 : calls[i].outcome.kind = "raise"
    /\ result = Return(Str(MSG_UNKNOWN))

\* C2: without a connected MCP client the only transport call of a message is
\* the direct send_message with the raw message and no context, and the text
\* it returns is the result, unchanged.
C2_PlainOnlyWithoutMcp ==
    (Done /\ Started /\ ~(mcp_client = "client" /\ connected)) =>
        /\ Len(calls) = 1
        /\ IsPlain(calls[1])
        /\ calls[1].text = message
        /\ calls[1].context = PyNone
        /\ calls[1].outcome.kind = "return" =>
               result = Return(calls[1].reply.value)

\* An MCP client exists but is disconnected, and the model's text came back.
C2_Witness ==
    /\ Done /\ Started
    /\ mcp_client = "client" /\ ~connected
    /\ Len(calls) = 1
    /\ result = Return(GoodReply)

\* What C3 promises for a respond plan: no tool call, no further model call,
\* and the plan's message as the result.
RespondShortCircuits ==
    /\ Count(IsToolCall) = 0
    /\ Count(IsSynthesis) = 0
    /\ Count(IsPlain) = 0
    /\ Count(IsPlanRequest) = 1
    /\ result = Return(plan.value.message)

ValidCallToolPlan ==
    /\ CallToolPlan
    /\ plan.value.tool.v \in ToolNames(available_tools)
    /\ IsDict(plan.value.arguments)

\* Exactly one tool invocation, of the plan's tool with the plan's arguments.
InvokedOnceAsPlanned ==
    /\ Count(IsToolCall) = 1
    /\ \A i \in 1..Len(calls) : IsToolCall(calls[i]) =>
           /\ calls[i].tool = plan.value.tool.v
           /\ calls[i].arguments = plan.value.arguments

\* C4 as claimed: whenever the synthesis call succeeds, its output is the result.
C4_Original ==
    (Done /\ ValidCallToolPlan) =>
        /\ InvokedOnceAsPlanned
        /\ \A i \in 1..Len(calls) :
               (IsSynthesis(calls[i]) /\ calls[i].outcome.kind = "return") =>
                   result = Return(calls[i].reply.value)

\* C4 as amended: whenever the synthesis call succeeds with a non-empty
\* output, that output is the result and no plain call is made.
C4_ToolPlanSynthesised ==
    (Done /\ ValidCallToolPlan) =>
        /\ InvokedOnceAsPlanned
        /\ \A i \in 1..Len(calls) :
               (IsSynthesis(calls[i]) /\ calls[i].outcome.kind = "return"
                    /\ calls[i].reply.value.v # << >>) =>
                   /\ result = Return(calls[i].reply.value)
                   /\ Count(IsPlain) = 0

\* execute_sql was invoked with the SQL arguments and the synthesis output is
\* the result.
C4_Witness ==
    /\ Done /\ ValidCallToolPlan
    /\ plan.value.arguments = SQL_ARGUMENTS
    /\ Count(IsSynthesis) = 1
    /\ LastCall.outcome = Return(GoodReply)
    /\ result = Return(GoodReply)

\* C5: a call_tool plan naming a tool outside the known tool set leads to no
\* tool invocation and to the answer of the plain model call.
C5_UnknownToolFallsBack ==
    (Done /\ CallToolPlan
          /\ plan.value.tool.v \notin ToolNames(available_tools)) =>
        /\ Count(IsToolCall) = 0
        /\ AnsweredByPlainCall

\* The plan names execute_sql, the snapshot holds only list_tables, and the
\* plain call's text is the result.
C5_Witness ==
    /\ Done /\ CallToolPlan
    /\ plan.value.tool = Str(EXECUTE_SQL)
    /\ available_tools = <<T_LIST_TABLES>>
    /\ Count(IsToolCall) = 0
    /\ result = Return(GoodReply)

\* C6: a tool result flagged isError is answered with a text that contains
\* the tool's name and the rendered result, with no synthesis call and no
\* plain call.
C6_ToolErrorAnswered ==
    (Done /\ tool_result.kind = "return" /\ tool_result.value.isError) =>
        /\ result.kind = "return"
        /\ Contains(result.value.v, tool_name)
        /\ Contains(result.value.v, render_tool_result(tool_result.value))
        /\ Count(IsSynthesis) = 0
        /\ Count(IsPlain) = 0

\* A tool result flagged isError that renders to a non-empty text was answered.
C6_Witness ==
    /\ Done
    /\ tool_result.kind = "return" /\ tool_result.value.isError
    /\ render_tool_result(tool_result.value) # << >>
    /\ tool_name = EXECUTE_SQL
    /\ IsToolCall(LastCall)

\* The place of a call in the fixed order of one message.
Rank(c) ==
    IF IsContextFetch(c) THEN 1
    ELSE IF IsPlanRequest(c) THEN 2
    ELSE IF IsToolCall(c) THEN 3
    ELSE IF IsSynthesis(c) THEN 4
    ELSE 5

\* C7: within one message the calls happen in the order context fetch, plan
\* request, tool invocation, synthesis request (then the plain call), each at
\* most once; a tool invocation follows a plan request and a synthesis request
\* follows a tool invocation.
C7_OrderedCalls ==
    /\ \A i, j \in 1..Len(calls) : i < j => Rank(calls[i]) < Rank(calls[j])
    /\ \A j \in 1..Len(calls) :
           /\ IsToolCall(calls[j]) => \E i \in 1..(j - 1) : IsPlanRequest(calls[i])
           /\ IsSynthesis(calls[j]) => \E i \in 1..(j - 1) : IsToolCall(calls[i])

\* All five calls were made for one message.
C7_Witness ==
    /\ Done
    /\ Len(calls) = 5
    /\ IsContextFetch(calls[1]) /\ IsPlanRequest(calls[2]) /\ IsToolCall(calls[3])
    /\ IsSynthesis(calls[4]) /\ IsPlain(calls[5])

\* C8 as claimed: the conversation history changes only in a step that is a
\* plain-path send_message which returned.
C8_HistoryOnlyBySuccessfulPlainCall ==
    [][conversation_history' # conversation_history =>
          /\ pc = "send_message"
          /\ IsPlain(calls'[Len(calls')])
          /\ calls'[Len(calls')].outcome.kind = "return"]_vars

\* C9: when the plan request fails, with any GeminiError kind or because the
\* reply is not JSON, no tool is invoked and the message is answered by the
\* plain model call.
C9_PlanFailureFallsBack ==
    (Done /\ plan.kind = "raise") =>
        /\ Count(IsToolCall) = 0
        /\ Count(IsSynthesis) = 0
        /\ AnsweredByPlainCall

\* The reply to the plan request was text that is not JSON, and the plain
\* call's text is the result.
C9_Witness ==
    /\ Done /\ plan.kind = "raise"
    /\ Len(calls) = 3
    /\ calls[2].reply = Return(Str(<<"Sure, here is the plan">>))
    /\ result = Return(GoodReply)

\* C10: when the tool invocation raises, the tool is invoked once only, no
\* synthesis call is made and the message is answered by the plain model call.
C10_ToolRaiseFallsBack ==
    (Done /\ tool_result.kind = "raise") =>
        /\ Count(IsToolCall) = 1
        /\ Count(IsSynthesis) = 0
        /\ AnsweredByPlainCall

\* The session's call_tool raised and the plain call's text is the result.
C10_Witness ==
    /\ Done /\ tool_result.kind = "raise"
    /\ Len(calls) = 4
    /\ IsToolCall(calls[3]) /\ calls[3].outcome = Raise(MCPError("tool"))
    /\ result = Return(GoodReply)

\* The tool returned a result without isError and the synthesis call failed.
SynthesisFailed ==
    /\ tool_result.kind = "return"
    /\ ~tool_result.value.isError
    /\ \E i \in 1..Len(calls) :
           IsSynthesis(calls[i]) /\ calls[i].outcome.kind = "raise"

\* `text` is `tool_output` with a non-empty note in front of it.
NotePrefixed(text, tool_output) ==
    /\ Len(text) > Len(tool_output)
    /\ SubSeq(text, Len(text) - Len(tool_output) + 1, Len(text)) = tool_output

\* C11 as claimed: when the tool succeeded and the synthesis call failed, the
\* result is the rendered tool output with an explanatory note in front of
\* it, and the plain call is not made.
C11_SynthesisFailureNoted ==
    (Done /\ SynthesisFailed) =>
        /\ result.kind = "return"
        /\ NotePrefixed(result.value.v, render_tool_result(tool_result.value))
        /\ Count(IsPlain) = 0

\* The context fetch of this message was made and raised.
ContextFetchFailed ==
    /\ calls # << >>
    /\ IsContextFetch(calls[1])
    /\ calls[1].outcome.kind = "raise"

\* C12: after a failed context fetch the message is handled with no context:
\* the plan request follows when tools are known, every plain call carries no
\* context, and handling never ends at the fetch with its error as the answer.
C12_ContextFailureIgnored ==
    ContextFetchFailed =>
        /\ context = PyNone
        /\ calls[1].outcome = Raise(MCPError("protocol"))
        /\ available_tools # << >> =>
               \/ pc = "send_json"
               \/ Len(calls) >= 2 /\ IsPlanRequest(calls[2])
        /\ available_tools = << >> =>
               \/ pc = "send_message"
               \/ Len(calls) = 2 /\ IsPlain(calls[2])
        /\ \A i \in 1..Len(calls) : IsPlain(calls[i]) => calls[i].context = PyNone
        /\ Done => (Len(calls) >= 2 /\ result.kind = "return")

\* The context fetch failed, the plan request was still made, and the plain
\* call, sent without context, gave the answer.
C12_Witness ==
    /\ Done /\ ContextFetchFailed
    /\ Count(IsPlanRequest) = 1
    /\ IsPlain(LastCall) /\ LastCall.context = PyNone
    /\ result = Return(GoodReply)

\* C13: handle_user_message on an application that was never started raises
\* RuntimeError, returns no string, and makes no transport call.
C13_UninitializedRaises ==
    ~Started =>
        /\ Idle
        /\ calls = << >>
        /\ conversation_history = << >>
        /\ Done => result = Raise(RuntimeError)

\* handle_user_message was called before start() and raised RuntimeError.
C13_Witness ==
    /\ Done /\ ~Started
    /\ handled = 1
    /\ result = Raise(RuntimeError)
    /\ calls = << >>

\* The last operation was list_tools on a connected client.
ListedWhileConnected == returned.op = "list_tools" /\ returned.usable

\* C14: on a connected client whose underlying calls succeed, the list_tools
\* calls without force_refresh issue one session call in total, every later
\* one returns the cached tools of the first, and each call with
\* force_refresh issues one more session call.
C14_ListToolsCached ==
    /\ (Usable /\ counts.failed = 0 /\ counts.forced = 0 /\ counts.unforced >= 1)
           => counts.issued = 1
    /\ (Usable /\ counts.failed = 0)
           => (counts.forced <= counts.issued /\ counts.issued <= counts.forced + 1)
    /\ ListedWhileConnected =>
           /\ returned.force_refresh => returned.issued
           /\ (~returned.force_refresh /\ returned.cache_before # PyNone) =>
                  /\ ~returned.issued
                  /\ returned.outcome = Return(returned.cache_before)
                  /\ tool_cache = returned.cache_before
           /\ (returned.issued /\ returned.reply.kind = "return") =>
                  /\ returned.outcome = Return(List(returned.reply.value.v))
                  /\ tool_cache = returned.outcome.value

\* connect, list_tools(), list_tools(), list_tools(force_refresh=True): two
\* session calls were issued and the last call returned what the session sent.
C14_Witness ==
    /\ Usable
    /\ counts = [unforced |-> 2, forced |-> 1, issued |-> 2, failed |-> 0]
    /\ ListedWhileConnected /\ returned.force_refresh
    /\ returned.outcome = Return(List(<<T_EXECUTE_SQL>>))

\* C15 as claimed: connect() always returns; it returns True exactly when the
\* session was initialized, and is_connected() agrees with what it returned.
C15_ConnectNeverRaises ==
    returned.op = "connect" =>
        /\ returned.outcome.kind = "return"
        /\ returned.outcome.value = PyTrue <=>
               connect_stage(config, returned.peer) = "initialized"
        /\ connected <=> returned.outcome.value = PyTrue

\* start() was given server settings and the tool transport was not set up:
\* connect() returned False or raised, or list_tools raised after it.
InitializationFailed ==
    /\ returned.op = "start"
    /\ returned.connect # NoResult
    /\ \/ returned.connect # Return(PyTrue)
       \/ returned.list_tools.kind = "raise"

\* C16 as claimed: whenever the set-up of the tool transport fails during
\* start(), start() returns, no transport context is left open, the
\* application reports no MCP connection, and the messages that follow make
\* the plain model call only.
C16_FailedStartDisablesTools ==
    InitializationFailed =>
        /\ returned.outcome = Return(PyNone)
        /\ open_transports = 0
        /\ ~McpConnected
        /\ \A i \in 1..Len(calls) : IsPlain(calls[i])

\* C17: call_tool on a client that is not connected raises MCPError
\* "connection" and does not call the session; on a connected client a
\* failing session call raises MCPError "tool", and whatever the session
\* returns, a result flagged isError included, is returned as it is.
C17_CallToolOutcomes ==
    returned.op = "call_tool" =>
        /\ ~returned.usable =>
               /\ returned.outcome = Raise(MCPError("connection"))
               /\ ~returned.touched
        /\ (returned.usable /\ returned.reply.kind = "raise") =>
               returned.outcome = Raise(MCPError("tool"))
        /\ (returned.usable /\ returned.reply.kind = "return") =>
               returned.outcome = Return(returned.reply.value)

\* A connected client returned a result whose isError flag is set.
C17_Witness ==
    /\ returned.op = "call_tool"
    /\ returned.usable /\ returned.touched
    /\ returned.reply.kind = "return" /\ returned.reply.value.isError
    /\ returned.outcome = Return(returned.reply.value)

\* handle_error has returned its ErrorContext.
Handled == error_context # NoErrorContext

\* C18 as claimed: the recoverable flag follows the category: AUTH is not
\* recoverable; NETWORK, RATE_LIMIT and MCP_CONNECTION are recoverable.
C18_RecoverableFollowsCategory ==
    Handled =>
        /\ error_context.category = AUTH => ~error_context.recoverable
        /\ error_context.category \in {NETWORK, RATE_LIMIT, MCP_CONNECTION} =>
               error_context.recoverable

\* The error is tagged as coming from the tool transport, by its
\* error_source or by its text.
TaggedToolTransport ==
    error_source = Str(<<"mcp">>) \/ "MCP" \in error.markers

\* C19 as claimed: the category is decided by the rules in the order given: a
\* network or timeout exception is network; else rate-limit text is
\* rate_limit; else unauthorized/forbidden text is auth; else a tool-transport
\* tag is mcp_connection; everything else is unknown.
C19_ClassifiedByRules ==
    Handled =>
        error_context.category =
            IF IsNetworkClass(error) THEN NETWORK
            ELSE IF HasRateLimitText(error) THEN RATE_LIMIT
            ELSE IF HasAuthText(error) THEN AUTH
            ELSE IF TaggedToolTransport THEN MCP_CONNECTION
            ELSE UNKNOWN

RECURSIVE JoinedInOrder(_, _)
\* The pieces put one after the other from the left, a single newline
\* between two of them, an empty piece adding nothing.
JoinedInOrder(text, pieces) ==
    IF pieces = << >> THEN text
    ELSE IF Head(pieces) = << >> THEN JoinedInOrder(text, Tail(pieces))
    ELSE IF text = << >> THEN JoinedInOrder(Head(pieces), Tail(pieces))
    ELSE JoinedInOrder(text \o <<"\n">> \o Head(pieces), Tail(pieces))

\* C20: the rendered text is the pretty-printed structured content, when
\* there is one, followed by the piece of each content block in block order,
\* with single newlines between them; {"rows": 1} alone renders to a text
\* containing "rows", and a single text block "hello" alone renders to
\* exactly "hello".
C20_RenderedInOrder ==
    rendered # PyNone =>
        LET r == tool_result.value
            structured == Truthy(r.structuredContent)
            printed == json_dumps_indent(r.structuredContent)
        IN /\ IsStr(rendered)
           /\ structured =>
                  /\ SubSeq(rendered.v, 1, Len(printed)) = printed
                  /\ rendered.v = JoinedInOrder(printed, BlockPieces(r.content))
           /\ ~structured =>
                  rendered.v = JoinedInOrder(<< >>, BlockPieces(r.content))
           /\ (r.structuredContent = ROWS /\ r.content = << >>) =>
                  Contains(rendered.v, <<"\"rows\"">>)
           /\ (~structured /\ r.content = <<TextBlock(<<"hello">>)>>) =>
                  rendered.v = <<"hello">>

\* {"rows": 1} with a text block and a binary block was rendered: the printed
\* mapping, the text and the placeholder, one newline between them.
C20_Witness ==
    /\ tool_result.kind = "return"
    /\ tool_result.value.structuredContent = ROWS
    /\ Len(tool_result.value.content) = 2
    /\ rendered = Str(<<"{\n  ", "\"rows\"", ": 1", "\n}", "\n", "hello", "\n",
                        "<binary data omitted>">>)


\* What send_message raised in the last operation on the GeminiClient.
RaisedKind == returned.outcome.exc.error_type
FailedWith(cls) ==
    returned.outcome.kind = "raise" /\ returned.outcome.exc.cls = cls

\* The kind the rules give, read in their order, to what generate_content
\* did: the network class first, then the rate-limit texts, then the
\* authentication texts, unknown for anything else (a response without text
\* included).
KindByRules(api) ==
    IF api.kind = "raise" /\ api.exc.cls = "ConnectionError" THEN "network"
    ELSE IF api.kind = "raise" /\ "429" \in api.exc.markers THEN "rate_limit"
    ELSE IF api.kind = "raise" /\ "Too Many Requests" \in api.exc.markers
        THEN "rate_limit"
    ELSE IF api.kind = "raise" /\ "401" \in api.exc.markers THEN "auth"
    ELSE IF api.kind = "raise" /\ "403" \in api.exc.markers THEN "auth"
    ELSE IF api.kind = "raise" /\ "Unauthorized" \in api.exc.markers THEN "auth"
    ELSE "unknown"

\* C21: send_message fails only with GeminiError, and its kind follows the
\* rules in their order: network for a ConnectionError, rate_limit for a text
\* with 429 / Too Many Requests, auth for one with 401 / 403 / Unauthorized,
\* unknown for anything else.
C21_SendMessageKinds ==
    (returned.op = "send_message" /\ returned.outcome.kind = "raise") =>
        /\ FailedWith("GeminiError")
        /\ RaisedKind \in {"network", "rate_limit", "auth", "unknown"}
        /\ RaisedKind = KindByRules(returned.reply)

\* Every kind has been raised by a send_message at some point; the state
\* described is the one where a 403 text gave auth.
C21_Witness ==
    /\ returned.op = "send_message"
    /\ returned.reply.kind = "raise"
    /\ returned.reply.exc.cls = "TimeoutError"
    /\ returned.reply.exc.markers = {"403"}
    /\ FailedWith("GeminiError")
    /\ RaisedKind = "auth"

GeminiKinds == {"network", "rate_limit", "auth", "unknown"}

\* The reply to the last send_json was a text that json.loads rejects.
InvalidJsonReply ==
    /\ returned.op = "send_json"
    /\ returned.reply.kind = "return"
    /\ IsStr(returned.reply.value)
    /\ ~IsJson(returned.reply.value.v)

\* C22: when the reply to a JSON-mode request is not valid JSON, send_json
\* fails with a GeminiError whose kind is a parse-failure kind, none of
\* network, rate_limit, auth and unknown.
C22_ParseFailureKind ==
    InvalidJsonReply =>
        /\ FailedWith("GeminiError")
        /\ RaisedKind \notin GeminiKinds

\* The roles of the history alternate, user first.
Alternates(history) ==
    \A i \in 1..Len(history) :
        history[i].role = (IF i % 2 = 1 THEN "user" ELSE "model")

\* The last operation on the GeminiClient was a send that returned and that
\* persists history.
PersistedSend ==
    /\ returned.op = "send_message"
    /\ returned.persist_history
    /\ returned.outcome.kind = "return"

\* C23: the history has even length and alternates user/model; a successful
\* history-persisting send appends exactly the pair (raw message, reply), any
\* other send, a failed one included, appends nothing, and
\* reset_conversation leaves the history empty.
C23_HistoryPairs ==
    /\ Len(conversation_history) % 2 = 0
    /\ Alternates(conversation_history)
    /\ PersistedSend =>
           conversation_history =
               returned.history_before \o
                   <<[role |-> "user", content |-> Str(returned.text)],
                     [role |-> "model", content |-> returned.outcome.value]>>
    /\ (returned.op \in {"send_message", "send_json"} /\ ~PersistedSend) =>
           conversation_history = returned.history_before
    /\ returned.op = "reset_conversation" => conversation_history = << >>

\* The step is a disconnect() on the client.
DisconnectStep ==
    client_calls' = client_calls + 1 /\ returned'.op = "disconnect"

C25_ExitCodes ==
    /\ main.exit_code = <<0>> =>
           /\ main.pc = "returned"
           /\ main.ended_by = "KeyboardInterrupt"
           /\ main.starts = 1
           /\ gemini_client = "client"
           /\ main.shutdowns = 1
    /\ main.ended_by = "ConfigValidationError" =>
           /\ main.pc = "returned"
           /\ main.exit_code = <<1>>
           /\ main.starts = 0
           /\ main.shutdowns = 0
           /\ gemini_client = "none"

\* main() returned 0 after a message was answered.
C25_Witness ==
    /\ main.pc = "returned"
    /\ main.exit_code = <<0>>
    /\ main.ended_by = "KeyboardInterrupt"
    /\ main.shutdowns = 1
    /\ handled = 1

\* What the context fetch of this message gave: the text get_context
\* returned, None when it failed.
FetchedContext ==
    IF calls[1].outcome.kind = "return" THEN calls[1].outcome.value ELSE PyNone

\* The transport is connected and no tool is known.
ConnectedWithoutTools == McpConnected /\ available_tools = << >>

\* The transport is connected and at least one tool is known.
ConnectedWithTools == McpConnected /\ available_tools # << >>

\* C26: a plan request is made exactly when the transport is connected and at
\* least one tool is known, and only then is a tool invoked; with the
\* transport connected and no tool known, the message is answered by the
\* plain model call, which carries the context that was fetched.
C26_ToolPathNeedsTools ==
    /\ pc \in {"send_json", "call_tool", "synthesis"} => ConnectedWithTools
    /\ Count(IsPlanRequest) + Count(IsToolCall) > 0 => ConnectedWithTools
    /\ (Done /\ result.kind = "return") =>
           /\ Count(IsPlanRequest) = (IF ConnectedWithTools THEN 1 ELSE 0)
           /\ ConnectedWithoutTools =>
                  /\ Count(IsToolCall) = 0
                  /\ Len(calls) = 2
                  /\ IsContextFetch(calls[1])
                  /\ AnsweredByPlainCall
                  /\ LastCall.context = FetchedContext

\* A message was answered by the plain call with a fetched context while the
\* transport was connected and no tool was known.
C26_Witness ==
    /\ Done
    /\ ConnectedWithoutTools
    /\ Truthy(context)
    /\ AnsweredByPlainCall
    /\ LastCall.context = context
    /\ result = Return(GoodReply)

\* A string that is missing, not a string or empty.
NoText(x) == ~IsStr(x) \/ x.v = << >>

\* The plan the model returned is neither a valid respond nor a valid
\* call_tool: not a mapping, no or an unrecognized action, a respond without
\* a message text, a call_tool without a tool name.
InvalidPlan ==
    /\ plan.kind = "return"
    /\ \/ ~IsDict(plan.value)
       \/ plan.value.action \notin {Str(<<"respond">>), Str(<<"call_tool">>)}
       \/ plan.value.action = Str(<<"respond">>) /\ NoText(plan.value.message)
       \/ plan.value.action = Str(<<"call_tool">>) /\ NoText(plan.value.tool)

\* C27: a plan that is neither a valid respond nor a valid call_tool is
\* discarded without a crash: no tool is invoked, the tool-assisted path
\* gives no answer, and the message is answered by the plain model call.
C27_InvalidPlanDiscarded ==
    InvalidPlan =>
        /\ pc \in {"send_message", "done"}
        /\ Count(IsToolCall) = 0
        /\ Count(IsSynthesis) = 0
        /\ tool_based_answer = PyNone
        /\ Done => (result.kind = "return" /\ AnsweredByPlainCall)

\* A plan that is a JSON array was discarded and the plain call answered.
C27_Witness ==
    /\ Done
    /\ InvalidPlan
    /\ plan.value = NonDictDoc("list")
    /\ AnsweredByPlainCall
    /\ result = Return(GoodReply)

\* The plan is a call_tool naming a known tool, with arguments that are
\* present and not a mapping.
NonMappingArguments ==
    /\ CallToolPlan
    /\ plan.value.tool.v \in ToolNames(available_tools)
    /\ plan.value.arguments # PyNone
    /\ ~IsDict(plan.value.arguments)

\* The tool calls and the synthesis requests of this message.
ToolCalls == {i \in 1..Len(calls) : IsToolCall(calls[i])}
SynthesisCalls == {i \in 1..Len(calls) : IsSynthesis(calls[i])}

\* C28: when a call_tool plan names a known tool and its arguments are
\* present but not a mapping, the arguments are dropped, the tool is invoked
\* exactly once, with no arguments, and the synthesis prompt carries the
\* empty argument object.
C28_NonMappingArgumentsDropped ==
    NonMappingArguments =>
        /\ pc \in {"call_tool", "synthesis", "send_message", "done"}
        /\ arguments = PyNone
        /\ Cardinality(ToolCalls) = (IF pc = "call_tool" THEN 0 ELSE 1)
        /\ \A i \in ToolCalls :
               /\ calls[i].tool = plan.value.tool.v
               /\ calls[i].arguments = PyNone
        /\ \A i \in SynthesisCalls :
               Contains(calls[i].text,
                        <<"\n[arguments]\n", "{", "}", "\n\n[result]\n">>)

\* The tool ran on a plan with a list as arguments and the synthesis answered.
C28_Witness ==
    /\ Done
    /\ NonMappingArguments
    /\ Cardinality(ToolCalls) = 1
    /\ Cardinality(SynthesisCalls) = 1
    /\ result = Return(GoodReply)

\* A content block that carries data and no text.
OpaqueDataBlock(block) == ~Truthy(block.text) /\ block.data # PyNone

\* C29: in the rendered text every content block that carries data and no
\* text stands as the redaction placeholder, and its payload, bytes or
\* string, does not appear.
C29_OpaqueDataRedacted ==
    rendered # PyNone =>
        \A i \in 1..Len(tool_result.value.content) :
            LET block == tool_result.value.content[i] IN
            OpaqueDataBlock(block) =>
                /\ Contains(rendered.v, <<"<binary data omitted>">>)
                /\ block.data.v # << >> => ~Contains(rendered.v, block.data.v)

\* The user-facing message the error-mapping policy assigns to a kind.
MessageOfKind(kind) ==
    IF kind = "network" THEN MSG_NETWORK
    ELSE IF kind = "rate_limit" THEN MSG_RATE_LIMIT
    ELSE IF kind = "auth" THEN MSG_AUTH
    ELSE MSG_UNKNOWN

\* The plain call of this message failed with a GeminiError.
PlainCallFailed ==
    /\ Done
    /\ calls # << >>
    /\ IsPlain(LastCall)
    /\ LastCall.outcome.kind = "raise"
    /\ LastCall.outcome.exc.cls = "GeminiError"

\* C30: when the plain model call fails with a GeminiError of kind K, the
\* string handle_user_message returns is the user-facing message of kind K.
C30_MessageOfFailureKind ==
    PlainCallFailed =>
        result = Return(Str(MessageOfKind(LastCall.outcome.exc.error_type)))

\* What one external call asks for: the client method, its arguments and,
\* for a model call, the contents sent.
Request(op, text, ctx, tool, args, persist) ==
    [op |-> op, text |-> text, context |-> ctx, tool |-> tool,
     arguments |-> args, persist_history |-> persist,
     contents |-> IF op \in {"send_json", "send_message"}
                  THEN full_message(text, ctx) ELSE << >>]

RequestOf(c) ==
    [op |-> c.op, text |-> c.text, context |-> c.context, tool |-> c.tool,
     arguments |-> c.arguments, persist_history |-> c.persist_history,
     contents |-> c.contents]

Run(requests, answer) == [requests |-> requests, result |-> answer]

\* A run that ends with the plain call, answered `reply`.
PlainRun(before, m, ctx, reply) ==
    Run(Append(before, Request("send_message", m, ctx, << >>, PyNone, TRUE)),
        TopLevel(send_message(reply)))

\* The external calls and the answer of one message as a function of the
\* message, the known tools, whether the transport is connected, and what
\* the transports reply, in order.  Nothing else is an argument: neither the
\* conversation history nor anything of the messages handled before.
ExpectedRun(m, tools, conn, replies) ==
    LET At(k) == IF k <= Len(replies) THEN replies[k] ELSE NoResult IN
    IF ~conn THEN PlainRun(<< >>, m, PyNone, At(1))
    ELSE
    LET fetched == get_context(TRUE, At(1))
        ctx == IF fetched.kind = "raise" THEN PyNone ELSE fetched.value
        r1 == <<Request("get_context", << >>, PyNone, << >>, PyNone, FALSE)>>
    IN
    IF tools = << >> THEN PlainRun(r1, m, ctx, At(2))
    ELSE
    LET prompt == build_tool_decision_prompt(tools, m)
        r2 == Append(r1, Request("send_json", prompt, PyNone, << >>, PyNone,
                                 FALSE))
        planned == send_json(At(2))
        decision == IF planned.kind = "raise" THEN Nothing
                    ELSE PlanDecision(planned.value, tools)
    IN
    IF decision.kind = "answer" THEN Run(r2, Return(decision.answer))
    ELSE IF decision.kind = "none" THEN PlainRun(r2, m, ctx, At(3))
    ELSE
    LET r3 == Append(r2, Request("call_tool", << >>, PyNone, decision.tool,
                                 decision.arguments, FALSE))
        called == call_tool(TRUE, At(3))
    IN
    IF called.kind = "raise" THEN PlainRun(r3, m, ctx, At(4))
    ELSE IF called.value.isError
        THEN Run(r3, Return(tool_failure_answer(decision.tool, called.value)))
    ELSE
    LET output == render_tool_result(called.value)
        r4 == Append(r3, Request("send_message",
                                 final_prompt(m, decision.tool,
                                              decision.arguments, output),
                                 PyNone, << >>, PyNone, FALSE))
        answer == synthesis_answer(send_message(At(4)), output)
    IN
    IF Truthy(answer) THEN Run(r4, Return(answer))
    ELSE PlainRun(r4, m, ctx, At(5))

\* C31: the external calls of a message, with their prompts, contents and
\* arguments, and its answer are determined by the message, the known tools,
\* the connection state and the transports' replies alone; two runs that
\* agree on these agree on the calls and on the answer, whatever was handled
\* before.
C31_PlannedIndependently ==
    (Done /\ Started /\ result.kind = "return") =>
        LET expected ==
                ExpectedRun(message, available_tools, McpConnected,
                            [i \in 1..Len(calls) |-> calls[i].reply])
        IN /\ [i \in 1..Len(calls) |-> RequestOf(calls[i])] = expected.requests
           /\ result = expected.result

\* A second message ran the tool path to the synthesis after the first had
\* left its pair in the conversation history.
C31_Witness ==
    /\ Done
    /\ handled = 2
    /\ conversation_history # << >>
    /\ Count(IsPlanRequest) = 1
    /\ Count(IsToolCall) = 1
    /\ Count(IsSynthesis) = 1
    /\ result = Return(GoodReply)

\* The last operation was a list_tools whose underlying session call failed.
ListToolsFailed ==
    /\ returned.op = "list_tools"
    /\ returned.issued
    /\ returned.reply.kind = "raise"

\* The step is a list_tools() without force_refresh on the client.
UnforcedListToolsStep ==
    /\ client_calls' = client_calls + 1
    /\ returned'.op = "list_tools"
    /\ ~returned'.force_refresh

\* C32: a list_tools whose session call failed, forced or not, raises
\* MCPError "protocol" and leaves the cache as it was, so that a list_tools()
\* without refresh that follows returns the earlier list with no session
\* call; on a client that is not connected list_tools returns the empty list
\* and leaves the cache alone.
C32_FailedFetchKeepsCache ==
    [][/\ ListToolsFailed' =>
              /\ returned'.outcome = Raise(MCPError("protocol"))
              /\ tool_cache' = returned'.cache_before
       /\ (ListToolsFailed /\ returned.cache_before # PyNone
             /\ UnforcedListToolsStep) =>
              /\ ~returned'.issued
              /\ returned'.outcome = Return(returned.cache_before)
              /\ tool_cache' = returned.cache_before
       /\ (returned'.op = "list_tools" /\ ~returned'.usable) =>
              /\ ~returned'.issued
              /\ returned'.outcome = Return(List(<< >>))
              /\ (client_calls' # client_calls => UNCHANGED tool_cache)]_vars

\* A forced refresh failed on a filled cache and the cache is still there.
C32_Witness ==
    /\ ListToolsFailed
    /\ returned.force_refresh
    /\ returned.cache_before = List(<<T_EXECUTE_SQL>>)
    /\ returned.outcome = Raise(MCPError("protocol"))
    /\ tool_cache = List(<<T_EXECUTE_SQL>>)

\* The tool invocation of this message returned a result.
ToolReturned == tool_result.kind = "return"

\* The synthesis call of this message returned the empty string.
EmptySynthesis ==
    \E i \in 1..Len(calls) :
        IsSynthesis(calls[i]) /\ calls[i].outcome = Return(Str(<< >>))

\* The answer comes from the tool result: the failure string when the result
\* is flagged isError, else the synthesis output, else, the synthesis having
\* failed, the rendered output (a fixed notice when that is empty).
DerivedFromToolResult ==
    LET rendered_output == render_tool_result(tool_result.value) IN
    IF tool_result.value.isError
    THEN /\ Count(IsSynthesis) = 0
         /\ result.kind = "return"
         /\ Contains(result.value.v, tool_name)
         /\ rendered_output # << >> =>
                Contains(result.value.v, rendered_output)
    ELSE /\ Count(IsSynthesis) = 1
         /\ \A i \in 1..Len(calls) : IsSynthesis(calls[i]) =>
                IF calls[i].outcome.kind = "return"
                THEN result = calls[i].outcome
                ELSE /\ result.kind = "return"
                     /\ result.value.v # << >>
                     /\ rendered_output # << >> =>
                            result.value.v = rendered_output

\* C33 as claimed: once the tool invocation has returned a result, the answer
\* is derived from it and the plain call is not made, an empty synthesis
\* output included.
C33_Original ==
    (Done /\ ToolReturned) =>
        /\ Count(IsPlain) = 0
        /\ DerivedFromToolResult

\* C33 as amended: the same, except that an empty synthesis output counts as
\* no answer: the plain call is then made and answers the message.
C33_ToolResultAnswers ==
    (Done /\ ToolReturned) =>
        IF EmptySynthesis
        THEN /\ ~tool_result.value.isError
             /\ Count(IsPlain) = 1
             /\ AnsweredByPlainCall
        ELSE /\ Count(IsPlain) = 0
             /\ DerivedFromToolResult

\* The tool returned rows, the synthesis returned "", and the plain call
\* answered.
C33_Witness ==
    /\ Done
    /\ ToolReturned
    /\ EmptySynthesis
    /\ Count(IsPlain) = 1
    /\ result = Return(GoodReply)

\* C34: under any sequence of connect() and disconnect() calls at most one
\* transport context is open, and none is open while is_connected() is False.
C34_OneTransportOpen ==
    /\ open_transports <= 1
    /\ ~connected => open_transports = 0

\* The list_tools calls of the current connection whose fetch succeeded.
Fetched == counts.issued - counts.failed

\* C35: list_tools never returns a list fetched over an earlier connection:
\* a cache the connected client holds was fetched over the current
\* connection, the first list_tools of a connection issues a session call,
\* a call that issues none returns what this connection fetched, and a
\* client that is not connected gets the empty list.
C35_NoStaleToolList ==
    /\ (Usable /\ tool_cache # PyNone) => Fetched >= 1
    /\ (Usable /\ Fetched = 0) => tool_cache = PyNone
    /\ ListedWhileConnected =>
           /\ counts.unforced + counts.forced = 1 => returned.issued
           /\ ~returned.issued =>
                  /\ Fetched >= 1
                  /\ returned.outcome = Return(tool_cache)
    /\ (returned.op = "list_tools" /\ ~returned.usable) =>
           returned.outcome = Return(List(<< >>))

\* The first list_tools after a reconnect of a connected client, whose cache
\* was filled, fetched again.
C35_Witness ==
    /\ ListedWhileConnected
    /\ returned.issued
    /\ ~returned.force_refresh
    /\ returned.cache_before = PyNone
    /\ counts = [unforced |-> 1, forced |-> 0, issued |-> 1, failed |-> 0]
    /\ open_transports = 2
    /\ tool_cache = List(<<T_LIST_TABLES>>)

AfterShutdown == returned.op = "shutdown"

\* C36: shutdown() returns normally whatever the close of the transport does;
\* from then on the tool list is empty and is_mcp_connected() is False, no
\* transport is closed again, and a message handled later makes no context
\* fetch, plan request or tool invocation and is answered by the plain call.
C36_ShutdownIsFinal ==
    [][ /\ AfterShutdown' =>
               /\ returned'.outcome = Return(PyNone)
               /\ available_tools' = << >>
               /\ ~McpConnected'
               /\ Count(IsContextFetch)' = 0
               /\ Count(IsPlanRequest)' = 0
               /\ Count(IsToolCall)' = 0
               /\ Done' => /\ AnsweredByPlainCall'
                           /\ Len(calls') = 1
        /\ AfterShutdown => open_transports' = open_transports
        /\ open_transports' >= open_transports - 1 ]_vars

\* A message answered after a shutdown whose close of the transport raised,
\* in an application that was connected with tools before.
C36_Witness ==
    /\ AfterShutdown
    /\ returned.close = "raise"
    /\ mcp_client = "client"
    /\ open_transports = 0
    /\ Done
    /\ Len(calls) = 1
    /\ result = Return(GoodReply)

\* app.start() has completed: only then does the application hold its
\* Gemini client.
StartCompleted == main.starts = 1 /\ gemini_client = "client"

\* C37: once app.start() has completed, main() does not return before
\* app.shutdown() has been called, however the chat loop ended.
C37_ShutdownBeforeReturn ==
    (StartCompleted /\ main.pc = "returned") => main.shutdowns = 1

\* The user-facing message that belongs to a category.
MessageOfCategory(category) ==
    CASE category = NETWORK -> MSG_NETWORK
      [] category = RATE_LIMIT -> MSG_RATE_LIMIT
      [] category = AUTH -> MSG_AUTH
      [] category = MCP_CONNECTION -> MSG_MCP
      [] OTHER -> MSG_UNKNOWN

\* C38: the user-facing message handle_error returns is the message of the
\* category it reports, for every error and every error_source.
C38_MessageMatchesCategory ==
    Handled =>
        error_context.user_message = MessageOfCategory(error_context.category)

====
